---- MODULE Spec2Model ----
(***************************************************************************)
(* SEO audit pipeline of the "Designed For You" site tooling.              *)
(*                                                                         *)
(*   scripts/seo/seo-audit.js        auditMetadata, auditContent,          *)
(*                                   generateRatingLabel,                  *)
(*                                   generateHTMLReport, processDirectory  *)
(*   scripts/consolidated/metadata.js  findHtmlFiles, checkHtmlFile, main  *)
(*   unnamed/part_007                seoConfig (thresholds, checks)        *)
(*   unnamed/part_009                content analyzer, main                *)
(*   unnamed/part_008                report generator: runScript,          *)
(*                                   extract*Score, main                   *)
(*                                                                         *)
(* A document is represented by what the DOM queries of the auditors       *)
(* return for it (lengths of the selected texts, element counts, presence  *)
(* of attributes); the queries themselves are the parsing library's.       *)
(* A JavaScript number is an integer here, NaN being the value NaN below;  *)
(* Math.round, on the non-negative rationals that occur, is Round.         *)
(***************************************************************************)
EXTENDS Integers, Sequences, FiniteSets, TLC

VARIABLES
    doc,              \* the document handed to the auditors (unit runs)
    metaResult,       \* what auditMetadata returned for doc, or NoResult
    contentResult,    \* what auditContent returned for doc, or NoResult
    ratingIn,         \* the score last given to generateRatingLabel
    ratingOut,        \* the label it returned
    prevIn,           \* the score given to the call before that
    prevOut,          \* and its label
    rootKind,         \* what the target directory path names
    files,            \* the HTML files of the tree: state and document of each
    targetDir,        \* "." when the target is the working directory
    history,          \* what each earlier run of the script left behind
    inflight,         \* per file, how far a worker's try block has come
    sitemap,          \* a sitemap generator: its promises, timer and files
    dist,             \* the dist directory as the dist audit sees and leaves it
    disk,             \* the report directory and the artifacts in it
    clock,            \* the time new Date() returns, in milliseconds
    pc,               \* the statement the running script is at
    exitCode,         \* the exit code of the script, or Running
    stack,            \* the active calls of processFiles: directory, position
    metadataResults,  \* the array of that name in processDirectory
    contentResults,   \* the array of that name in processDirectory
    processLog,       \* the paths printed by "Processing file:"
    errorLog,         \* the paths printed by "Error processing"
    timestamp,        \* the timestamp taken by processDirectory
    returned,         \* the timestamp in the path generateHTMLReport returned
    report,           \* the scores generateHTMLReport computed, or NoReport
    metadataRun,      \* what runScript returned for the metadata checker
    contentRun,       \* what runScript returned for the content analyzer
    cliResults        \* the results object of the report generator

unitVars == <<doc, metaResult, contentResult>>
labelVars == <<ratingIn, ratingOut, prevIn, prevOut>>
treeVars == <<rootKind, files, targetDir, history, inflight, sitemap,
              dist>>
runVars == <<disk, clock, pc, exitCode>>
auditVars == <<stack, metadataResults, contentResults, processLog, errorLog,
               timestamp, returned, report>>
cliVars == <<metadataRun, contentRun, cliResults>>

----------------------------------------------------------------------------
(* Bounds of the model *)

MaxH1 == 2
MaxNoAlt == 2
MaxEmptyAlt == 1
MaxTextAlt == 3
MaxSemantic == 3
MaxLinks == 3

\* the scale of a normalized score, seo-audit.js:143
MaxScore == 100

\* milliseconds that may pass between two readings of the clock
MaxTick == 1

\* runs of the audit script, one after the other
MaxRuns == 2

\* the time a sitemap generator is watched for, in steps of TickMs
MaxWaitTicks == 16
TickMs == 2500

----------------------------------------------------------------------------
(* Numbers *)

\* Math.round(0 / 0), and anything computed from it
NaN == -1

IsNaN(x) == x = NaN

\* Math.round(n / d) for n >= 0, d > 0: the nearest integer, halves upwards
Round(n, d) == (2 * n + d) \div (2 * d)

\* Math.round(n / d) as JavaScript evaluates it, 0 / 0 included
JsRoundDiv(n, d) == IF d = 0 THEN NaN ELSE Round(n, d)

\* the sum of a sequence of numbers
RECURSIVE SumSeq(_)
SumSeq(q) == IF q = <<>> THEN 0 ELSE Head(q) + SumSeq(Tail(q))

----------------------------------------------------------------------------
(* The scoring weights, seo-audit.js:28-45 *)

WEIGHTS ==
    [metadata |-> [title |-> 15, metaDescription |-> 20, viewport |-> 10,
                   charset |-> 10, headingStructure |-> 15,
                   canonicalLink |-> 10],
     content  |-> [wordCount |-> 15, readability |-> 25,
                   headingStructure |-> 20, imageAlt |-> 20,
                   semanticTags |-> 10, internalLinks |-> 10]]

----------------------------------------------------------------------------
(* Documents *)

TitleLens == {0, 9, 10, 60, 61}
DescLens == {0, 9, 10, 160, 161}
DescKinds == {"absent", "noContent", "content"}
ViewportKinds == {"absent", "noContent", "other", "deviceWidth"}
CharsetKinds == {"absent", "empty", "value"}
CanonicalKinds == {"absent", "noHref", "href"}

\* <<words of the body text, sentences of the body text>>; a text of
\* punctuation only ("...") is one word and no sentence
TextShapes ==
    {<<0, 0>>, <<1, 0>>, <<1, 1>>, <<299, 15>>, <<300, 15>>, <<300, 14>>,
     <<300, 12>>, <<300, 11>>, <<1000, 50>>, <<1001, 50>>}

\* the document of the specification's full-score example, with a body that
\* scores 80 of 100 on content; titleTag tells whether there is a title
\* element, titleWords and h1Words are the words of the title and of the
\* first h1, titleStops the runs of ".", "!", "?" in the title
GoodDoc ==
    [titleTag |-> TRUE, titleLen |-> 30, titleWords |-> 1, titleStops |-> 0,
     h1Words |-> 1, desc |-> "content", descLen |-> 100,
     viewport |-> "deviceWidth", charset |-> "value", h1 |-> 1,
     canonical |-> "href",
     wordCount |-> 300, sentences |-> 15, syllables |-> 450,
     h2 |-> 1, h3 |-> 0,
     imgNoAlt |-> 0, imgEmptyAlt |-> 0, imgTextAlt |-> 0,
     semanticTags |-> 0, internalLinks |-> 0]

\* a description meta: absent, without content attribute, or with a content
\* of some length
DescShapes ==
    ({"absent", "noContent"} \X {0}) \cup ({"content"} \X DescLens)

\* a page that differs from GoodDoc in what auditMetadata reads
MetaDoc(t, d, v, c, h, k) ==
    [GoodDoc EXCEPT !.titleLen = t, !.desc = d[1], !.descLen = d[2],
                    !.viewport = v, !.charset = c, !.h1 = h, !.canonical = k]

\* a page with metadata 44 and content 40
PoorDoc ==
    [GoodDoc EXCEPT !.desc = "absent", !.descLen = 0, !.h1 = 0,
                    !.canonical = "absent", !.h2 = 0, !.imgNoAlt = 1,
                    !.syllables = 600]

\* a page with metadata 13 and content 50
MidDoc ==
    [GoodDoc EXCEPT !.titleLen = 0, !.desc = "noContent", !.descLen = 0,
                    !.viewport = "other", !.h1 = 2, !.canonical = "noHref",
                    !.charset = "absent", !.imgNoAlt = 1, !.imgTextAlt = 1,
                    !.semanticTags = 3, !.internalLinks = 1, !.wordCount = 1001,
                    !.sentences = 50, !.syllables = 1301]

RunDocs == {GoodDoc, PoorDoc, MidDoc}

\* <<number of h2, number of h3>>
SubHeadings == {<<0, 0>>, <<1, 0>>, <<0, 1>>, <<1, 1>>}

\* a page that differs from GoodDoc in what auditContent reads; the text has
\* three syllables to two words
ContentDoc(ts, h, sub, im, sl) ==
    [GoodDoc EXCEPT !.wordCount = ts[1], !.sentences = ts[2],
                    !.syllables = ts[1] + (ts[1] \div 2), !.h1 = h,
                    !.h2 = sub[1], !.h3 = sub[2], !.imgNoAlt = im[1],
                    !.imgEmptyAlt = im[2], !.imgTextAlt = im[3],
                    !.semanticTags = sl[1], !.internalLinks = sl[2]]

----------------------------------------------------------------------------
(* auditMetadata, seo-audit.js:47-146 *)

NoResult == [file |-> "none"]

\* a results object whose score is not reset once a result has been pushed
EmptyResultsShared(file) ==
    [file |-> file, score |-> IF metadataResults = <<>> THEN 0 ELSE 5,
     maxScore |-> 0, checks |-> <<>>, issues |-> <<>>, normalizedScore |-> 0]

EmptyResults(file) ==
    [file |-> file, score |-> 0, maxScore |-> 0, checks |-> <<>>,
     issues |-> <<>>, normalizedScore |-> 0]

Passed(r, name, value, weight) ==
    [r EXCEPT !.maxScore = @ + weight, !.score = @ + weight,
              !.checks = Append(@, [name |-> name, status |-> "passed",
                                    value |-> value])]

\* a failed check that is recorded without its issue
FailedSilently(r, name, value, weight, issue) ==
    [r EXCEPT !.maxScore = @ + weight,
              !.checks = Append(@, [name |-> name, status |-> "failed",
                                    value |-> value])]

Failed(r, name, value, weight, issue) ==
    [r EXCEPT !.maxScore = @ + weight,
              !.checks = Append(@, [name |-> name, status |-> "failed",
                                    value |-> value]),
              !.issues = Append(@, issue)]

TitleCheck(r, d) ==
    LET hasOptimalTitle == d.titleLen > 0 /\ d.titleLen >= 10 /\ d.titleLen <= 60
    IN  IF hasOptimalTitle
        THEN Passed(r, "Title",
                    [text |-> "title", len |-> d.titleLen,
                     words |-> d.titleWords, stops |-> d.titleStops],
                    WEIGHTS.metadata.title)
        ELSE Failed(r, "Title",
                    IF d.titleLen > 0
                    THEN [text |-> "title", len |-> d.titleLen,
                          words |-> d.titleWords, stops |-> d.titleStops]
                    ELSE [text |-> "missing", len |-> 7, words |-> 1,
                          stops |-> 0],
                    WEIGHTS.metadata.title,
                    "Title tag is missing or not optimal (should be between 10-60 chars)")

\* $('meta[name="description"]').attr('content') is undefined without the
\* element or without the attribute, and falsy as well when empty
MetaDescriptionCheck(r, d) ==
    LET metaDescription == d.desc = "content" /\ d.descLen > 0
        hasOptimalDesc == metaDescription /\ d.descLen >= 10 /\ d.descLen <= 160
    IN  IF hasOptimalDesc
        THEN Passed(r, "Meta Description",
                    [text |-> "description", len |-> d.descLen],
                    WEIGHTS.metadata.metaDescription)
        ELSE Failed(r, "Meta Description",
                    IF metaDescription
                    THEN [text |-> "description", len |-> d.descLen]
                    ELSE [text |-> "missing", len |-> 7],
                    WEIGHTS.metadata.metaDescription,
                    "Meta description is missing or not optimal (should be between 10-160 chars)")

ViewportCheck(r, d) ==
    LET hasViewport == d.viewport = "deviceWidth"
    IN  IF hasViewport
        THEN Passed(r, "Viewport", [text |-> "deviceWidth"],
                    WEIGHTS.metadata.viewport)
        ELSE Failed(r, "Viewport",
                    IF d.viewport = "other" THEN [text |-> "other"]
                                            ELSE [text |-> "missing"],
                    WEIGHTS.metadata.viewport,
                    "Viewport meta tag is missing or doesn't include width=device-width")

\* a charset check that awards its weight to a document without charset too
CharsetCheckAlwaysAwards(r, d) ==
    LET hasCharset == d.charset # "absent"
    IN  IF hasCharset
        THEN Passed(r, "Charset", [text |-> d.charset],
                    WEIGHTS.metadata.charset)
        ELSE [Failed(r, "Charset", [text |-> "missing"],
                     WEIGHTS.metadata.charset, "Charset meta tag is missing")
                EXCEPT !.score = @ + WEIGHTS.metadata.charset]

CharsetCheck(r, d) ==
    LET hasCharset == d.charset # "absent"
    IN  IF hasCharset
        THEN Passed(r, "Charset", [text |-> d.charset],
                    WEIGHTS.metadata.charset)
        ELSE Failed(r, "Charset", [text |-> "missing"],
                    WEIGHTS.metadata.charset, "Charset meta tag is missing")

H1Check(r, d) ==
    LET hasOneH1 == d.h1 = 1
    IN  IF hasOneH1
        THEN Passed(r, "H1 Tag", [text |-> "h1", words |-> d.h1Words],
                    WEIGHTS.metadata.headingStructure)
        ELSE Failed(r, "H1 Tag", [text |-> "H1 tags", count |-> d.h1],
                    WEIGHTS.metadata.headingStructure,
                    "Page should have exactly one H1 tag")

CanonicalCheck(r, d) ==
    LET hasCanonical == d.canonical # "absent"
    IN  IF hasCanonical
        THEN Passed(r, "Canonical Link", [text |-> d.canonical],
                    WEIGHTS.metadata.canonicalLink)
        ELSE Failed(r, "Canonical Link", [text |-> "missing"],
                    WEIGHTS.metadata.canonicalLink, "Canonical link is missing")

\* a normalisation that truncates instead of rounding
NormalizeTruncating(r) ==
    [r EXCEPT !.normalizedScore =
                  IF r.maxScore = 0 THEN NaN ELSE (r.score * 100) \div r.maxScore]

Normalize(r) ==
    [r EXCEPT !.normalizedScore = JsRoundDiv(r.score * 100, r.maxScore)]

auditMetadata(file, d) ==
    Normalize(
      CanonicalCheck(
        H1Check(
          CharsetCheck(
            ViewportCheck(
              MetaDescriptionCheck(
                TitleCheck(EmptyResults(file), d), d), d), d), d), d))

----------------------------------------------------------------------------
(* auditContent, seo-audit.js:148-314 *)

\* a content check: the score it awards, its weight, status and issue
Scored(r, name, value, weight, gain, passed, hasIssue, issue) ==
    [r EXCEPT !.maxScore = @ + weight, !.score = @ + gain,
              !.checks = Append(@, [name |-> name,
                                    status |-> IF passed THEN "passed"
                                                         ELSE "failed",
                                    value |-> value]),
              !.issues = IF hasIssue THEN Append(@, issue) ELSE @]

\* score > weight * 0.7
AboveSeventy(score, weight) == score * 10 > weight * 7

\* a word-count score whose half weight is rounded down
WordCountScoreFloored(d) ==
    IF d.wordCount >= 300 /\ d.wordCount <= 1000
    THEN WEIGHTS.content.wordCount
    ELSE IF d.wordCount > 0 THEN WEIGHTS.content.wordCount \div 2
    ELSE 0

WordCountScore(d) ==
    IF d.wordCount >= 300 /\ d.wordCount <= 1000
    THEN WEIGHTS.content.wordCount
    ELSE IF d.wordCount > 0 THEN Round(WEIGHTS.content.wordCount, 2)
    ELSE 0

WordCountCheck(r, d) ==
    Scored(r, "Word Count", [count |-> d.wordCount],
           WEIGHTS.content.wordCount, WordCountScore(d),
           WordCountScore(d) > 0, d.wordCount < 300,
           "Content is too short (< 300 words)")

\* avgWordsPerSentence = sentences > 0 ? wordCount / sentences : 0, compared
\* with 0, 20 and 25
ReadabilityScore(d) ==
    LET w == d.wordCount
        n == d.sentences
        avgPositive == n > 0 /\ w > 0
    IN  IF avgPositive /\ w <= 20 * n THEN WEIGHTS.content.readability
        ELSE IF avgPositive /\ w > 20 * n /\ w <= 25 * n
             THEN Round(WEIGHTS.content.readability * 3, 4)
        ELSE IF avgPositive /\ w > 25 * n
             THEN Round(WEIGHTS.content.readability, 2)
        ELSE 0

ReadabilityCheck(r, d) ==
    Scored(r, "Readability",
           [avg |-> IF d.sentences > 0 THEN Round(d.wordCount, d.sentences)
                                       ELSE 0],
           WEIGHTS.content.readability, ReadabilityScore(d),
           AboveSeventy(ReadabilityScore(d), WEIGHTS.content.readability),
           d.sentences > 0 /\ d.wordCount > 20 * d.sentences,
           "Sentences are too long (average > 20 words)")

HeadingScore(d) ==
    IF d.h1 = 1 /\ d.h2 + d.h3 > 0 THEN WEIGHTS.content.headingStructure
    ELSE IF d.h1 = 1 THEN Round(WEIGHTS.content.headingStructure * 7, 10)
    ELSE 0

HeadingStructureCheck(r, d) ==
    Scored(r, "Heading Structure", [h1 |-> d.h1, h2 |-> d.h2, h3 |-> d.h3],
           WEIGHTS.content.headingStructure, HeadingScore(d),
           AboveSeventy(HeadingScore(d), WEIGHTS.content.headingStructure),
           d.h2 + d.h3 = 0, "Missing subheadings (H2, H3)")

\* $('img') and $('img[alt]'): an empty alt attribute is an alt attribute
Images(d) == d.imgNoAlt + d.imgEmptyAlt + d.imgTextAlt
ImagesWithAlt(d) == d.imgEmptyAlt + d.imgTextAlt

\* the tiers without the guard for a page without images: 0 / 0 is NaN, and
\* no comparison with NaN holds
ImageAltScoreUnguarded(d) ==
    LET images == Images(d)
        withAlt == ImagesWithAlt(d)
    IN  IF images > 0 /\ withAlt = images THEN WEIGHTS.content.imageAlt
        ELSE IF images > 0 /\ withAlt * 100 >= 80 * images
             THEN Round(WEIGHTS.content.imageAlt * 8, 10)
        ELSE IF images > 0 /\ withAlt * 100 >= 50 * images
             THEN Round(WEIGHTS.content.imageAlt, 2)
        ELSE 0

ImageAltScore(d) ==
    LET images == Images(d)
        withAlt == ImagesWithAlt(d)
    IN  IF images = 0 \/ withAlt = images THEN WEIGHTS.content.imageAlt
        ELSE IF withAlt * 100 >= 80 * images
             THEN Round(WEIGHTS.content.imageAlt * 8, 10)
        ELSE IF withAlt * 100 >= 50 * images
             THEN Round(WEIGHTS.content.imageAlt, 2)
        ELSE 0

ImageAltCheck(r, d) ==
    Scored(r, "Image Alt Text",
           [withAlt |-> ImagesWithAlt(d), images |-> Images(d),
            pct |-> IF Images(d) > 0
                    THEN Round(ImagesWithAlt(d) * 100, Images(d)) ELSE 100],
           WEIGHTS.content.imageAlt, ImageAltScore(d),
           AboveSeventy(ImageAltScore(d), WEIGHTS.content.imageAlt),
           Images(d) > 0 /\ ImagesWithAlt(d) < Images(d),
           "images missing alt text")

\* full weight from three on, else Math.round(weight * (count / 3))
TieredScore(count, weight) ==
    IF count >= 3 THEN weight
    ELSE IF count > 0 THEN Round(weight * count, 3)
    ELSE 0

SemanticTagsCheck(r, d) ==
    Scored(r, "Semantic Tags", [count |-> d.semanticTags],
           WEIGHTS.content.semanticTags,
           TieredScore(d.semanticTags, WEIGHTS.content.semanticTags),
           AboveSeventy(TieredScore(d.semanticTags, WEIGHTS.content.semanticTags),
                        WEIGHTS.content.semanticTags),
           d.semanticTags < 3, "Insufficient semantic HTML elements")

InternalLinksCheck(r, d) ==
    Scored(r, "Internal Links", [count |-> d.internalLinks],
           WEIGHTS.content.internalLinks,
           TieredScore(d.internalLinks, WEIGHTS.content.internalLinks),
           AboveSeventy(TieredScore(d.internalLinks, WEIGHTS.content.internalLinks),
                        WEIGHTS.content.internalLinks),
           d.internalLinks < 3,
           "Insufficient internal links (recommendation: at least 3)")

auditContent(file, d) ==
    Normalize(
      InternalLinksCheck(
        SemanticTagsCheck(
          ImageAltCheck(
            HeadingStructureCheck(
              ReadabilityCheck(
                WordCountCheck(EmptyResults(file), d), d), d), d), d), d))

----------------------------------------------------------------------------
(* generateRatingLabel, seo-audit.js:316-323; every comparison with NaN is  *)
(* false                                                                   *)

\* thresholds compared with > instead of >=
generateRatingLabelStrict(score) ==
    IF IsNaN(score) THEN "Very Poor"
    ELSE IF score > 90 THEN "Excellent"
    ELSE IF score > 80 THEN "Very Good"
    ELSE IF score > 70 THEN "Good"
    ELSE IF score > 60 THEN "Fair"
    ELSE IF score > 50 THEN "Poor"
    ELSE "Very Poor"

generateRatingLabel(score) ==
    IF IsNaN(score) THEN "Very Poor"
    ELSE IF score >= 90 THEN "Excellent"
    ELSE IF score >= 80 THEN "Very Good"
    ELSE IF score >= 70 THEN "Good"
    ELSE IF score >= 60 THEN "Fair"
    ELSE IF score >= 50 THEN "Poor"
    ELSE "Very Poor"

----------------------------------------------------------------------------
(* The file tree, the report directory and the state of a script run *)

Running == 99

HtmlFiles == {".cache/h.html", "a/b/page.html", "a/index.html",
              "node_modules/skip.html"}

\* fs.readdirSync of each directory of the tree, in listing order
Listing(dir) ==
    CASE dir = "." ->
           <<[name |-> ".cache", kind |-> "dir", path |-> ".cache"],
             [name |-> "a", kind |-> "dir", path |-> "a"],
             [name |-> "node_modules", kind |-> "dir", path |-> "node_modules"],
             [name |-> "notes.txt", kind |-> "file", path |-> "notes.txt"]>>
      [] dir = ".cache" ->
           <<[name |-> "h.html", kind |-> "file", path |-> ".cache/h.html"]>>
      [] dir = "a" ->
           <<[name |-> "b", kind |-> "dir", path |-> "a/b"],
             [name |-> "index.html", kind |-> "file", path |-> "a/index.html"]>>
      [] dir = "a/b" ->
           <<[name |-> "page.html", kind |-> "file", path |-> "a/b/page.html"]>>
      [] dir = "node_modules" ->
           <<[name |-> "skip.html", kind |-> "file",
              path |-> "node_modules/skip.html"]>>

\* a file of the tree: absent; unreadable (readFileSync throws); vanishing
\* (readable by auditMetadata, gone when auditContent reads it); or a page
FileOptions ==
    {[state |-> st, doc |-> GoodDoc] : st \in {"absent", "unreadable", "vanishing"}}
    \cup {[state |-> "html", doc |-> d] : d \in RunDocs}

NoFile == [kind |-> "none"]
OldReport == [kind |-> "old"]

\* `seo-report-${timestamp}.html`, lines 338 and 635
ReportName(t) == "seo-report-" \o ToString(t) \o ".html"

\* 'seo-report.html', line 648
LatestName == "seo-report.html"

RECURSIVE Ascending(_)
Ascending(S) ==
    IF S = {} THEN <<>>
    ELSE LET m == CHOOSE x \in S : \A y \in S : x <= y
         IN  <<m>> \o Ascending(S \ {m})

\* fs.readdirSync('seo-report'): the timestamped pages by name, then the
\* alias ("-" sorts before ".")
ReportEntries ==
    LET times == Ascending(DOMAIN disk.stamped)
    IN  [i \in 1..Len(times) |->
            [name |-> ReportName(times[i]), kind |-> "file",
             path |-> "seo-report/" \o ReportName(times[i]),
             artifact |-> disk.stamped[times[i]]]]
        \o (IF disk.latest = NoFile THEN <<>>
            ELSE <<[name |-> LatestName, kind |-> "file",
                    path |-> "seo-report/" \o LatestName,
                    artifact |-> disk.latest]>>)

\* the entries of a directory as processFiles meets them; the report
\* directory 'seo-report' of the working directory is below the target when
\* the target is the working directory (targetDir = '.', line 10)
Entries(dir) ==
    IF dir = "seo-report" THEN ReportEntries
    ELSE SelectSeq(Listing(dir),
                   LAMBDA e : e.path \in HtmlFiles
                                 => files[e.path].state # "absent")
         \o (IF dir = "." /\ targetDir = "." /\ disk.dirExists
             THEN <<[name |-> "seo-report", kind |-> "dir",
                     path |-> "seo-report"]>>
             ELSE <<>>)

----------------------------------------------------------------------------
(* The artifacts of the report directory as documents. The pages of the    *)
(* model have a title, a description and an h1 of one word each, without   *)
(* sentence punctuation; the site URL is the default of line 9 and dates   *)
(* are printed as in the en-US locale.                                     *)

\* the text 'seo-report/seo-report-<timestamp>.html' as cheerio loads it: no
\* head, a body of one word, cut into three by the "." of the milliseconds
\* and of the extension
PathDoc ==
    [titleTag |-> FALSE, titleLen |-> 0, titleWords |-> 0, titleStops |-> 0,
     h1Words |-> 0, desc |-> "absent", descLen |-> 0, viewport |-> "absent",
     charset |-> "absent", h1 |-> 0, canonical |-> "absent",
     wordCount |-> 1, sentences |-> 3, syllables |-> 1, h2 |-> 0, h3 |-> 0,
     imgNoAlt |-> 0, imgEmptyAlt |-> 0, imgTextAlt |-> 0,
     semanticTags |-> 0, internalLinks |-> 0]

\* words of the check names and of the issue texts
WordsIn(text) ==
    IF text \in {"Title", "Viewport", "Charset", "Readability"} THEN 1
    ELSE IF text \in {"Meta Description", "H1 Tag", "Canonical Link",
                      "Word Count", "Heading Structure", "Semantic Tags",
                      "Internal Links"} THEN 2
    ELSE IF text = "Image Alt Text" THEN 3
    ELSE IF text \in {"Title tag is missing or not optimal (should be between 10-60 chars)",
                      "Meta description is missing or not optimal (should be between 10-160 chars)"}
         THEN 12
    ELSE IF text = "Viewport meta tag is missing or doesn't include width=device-width"
         THEN 9
    ELSE IF text \in {"Charset meta tag is missing",
                      "images missing alt text"} THEN 5
    ELSE IF text \in {"Page should have exactly one H1 tag",
                      "Content is too short (< 300 words)",
                      "Insufficient internal links (recommendation: at least 3)"}
         THEN 7
    ELSE IF text = "Sentences are too long (average > 20 words)" THEN 8
    ELSE 4  \* "Canonical link is missing", "Missing subheadings (H2, H3)",
            \* "Insufficient semantic HTML elements"

\* words of ${check.value}
ValueWords(check) ==
    IF check.name = "Charset" /\ check.value.text = "empty" THEN 0
    ELSE IF check.name = "H1 Tag" /\ check.status = "failed" THEN 3
    ELSE IF check.name \in {"Title", "H1 Tag"} THEN check.value.words
    ELSE IF check.name \in {"Meta Description", "Viewport", "Charset",
                            "Canonical Link", "Word Count"} THEN 1
    ELSE IF check.name = "Readability" THEN 5
    ELSE IF check.name = "Heading Structure" THEN 8
    ELSE 3

\* a table row: name, mark and word of the status, value
RowWords(check) == WordsIn(check.name) + 2 + ValueWords(check)

\* a file summary, lines 486-523: name, score, table head, rows, and the
\* issues, whose <li> are joined without white space
ResultWords(r) ==
    2 + 3 + SumSeq([i \in 1..Len(r.checks) |-> RowWords(r.checks[i])])
    + (IF r.issues = <<>> THEN 3
       ELSE 1 + SumSeq([i \in 1..Len(r.issues) |-> WordsIn(r.issues[i])])
            - (Len(r.issues) - 1))

\* runs of ".", "!" and "?" in a file summary: those of the file name, of
\* the title shown as a value, and "No issues found!"
ResultStops(r) ==
    (IF r.file \in {ReportName(t) : t \in 0..clock} THEN 2 ELSE 1)
    + (IF r.checks[1].name = "Title" THEN r.checks[1].value.stops ELSE 0)
    + (IF r.issues = <<>> THEN 1 ELSE 0)

LabelWords(label) == IF label \in {"Very Good", "Very Poor"} THEN 2 ELSE 1

\* the page generateHTMLReport renders (lines 347-594) as the auditors read
\* it
ReportDoc(rep) ==
    LET all == rep.metadataResults \o rep.contentResults
        words == 91 + LabelWords(rep.metadataLabel)
                 + LabelWords(rep.contentLabel) + LabelWords(rep.overallLabel)
                 + SumSeq([i \in 1..Len(all) |-> ResultWords(all[i])])
    IN  [titleTag |-> TRUE, titleLen |-> 45, titleWords |-> 5,
         titleStops |-> 1, h1Words |-> 3, desc |-> "absent", descLen |-> 0,
         viewport |-> "deviceWidth", charset |-> "value", h1 |-> 1,
         canonical |-> "absent",
         wordCount |-> words,
         sentences |-> 3 + SumSeq([i \in 1..Len(all) |-> ResultStops(all[i])]),
         syllables |-> words + (words \div 2),
         h2 |-> 3, h3 |-> 3 + Len(all),
         imgNoAlt |-> 0, imgEmptyAlt |-> 0, imgTextAlt |-> 0,
         semanticTags |-> 1, internalLinks |-> 0]

\* the file an entry of a directory names
FileOf(e) ==
    IF e.path \in HtmlFiles THEN files[e.path]
    ELSE [state |-> "html",
          doc |-> IF e.artifact.kind = "html" THEN ReportDoc(e.artifact)
                  ELSE PathDoc]

----------------------------------------------------------------------------
(* The state of a script run *)

\* no report directory yet
EmptyDisk ==
    [dirExists |-> FALSE, stamped |-> <<>>, latest |-> NoFile, json |-> NoFile]

\* the artifacts an earlier run, at time 0, left behind
PriorDisk ==
    [dirExists |-> TRUE, stamped |-> (0 :> OldReport), latest |-> OldReport,
     json |-> OldReport]

NoReport == [kind |-> "none"]
NoRunResult == [success |-> FALSE, started |-> FALSE]

\* a file no worker has taken yet
IdleWorker == [stage |-> "idle", metadata |-> NoResult, content |-> NoResult]

NoWorkers == inflight = [p \in HtmlFiles |-> IdleWorker]

NoSitemap == [script |-> "none"]

NoSitemapRun == sitemap = NoSitemap

\* no dist audit is under way
NoDist == [exists |-> FALSE]

NoDistRun == dist = NoDist

UnitIdle ==
    /\ doc = GoodDoc
    /\ metaResult = NoResult
    /\ contentResult = NoResult

LabelIdle ==
    /\ ratingIn = 0 /\ ratingOut = "none" /\ prevIn = 0 /\ prevOut = "none"

NoTree ==
    /\ rootKind = "dir"
    /\ files = [p \in HtmlFiles |-> [state |-> "absent", doc |-> GoodDoc]]
    /\ targetDir = "site"
    /\ history = <<>>
    /\ NoWorkers
    /\ NoSitemapRun
    /\ NoDistRun

AuditIdle ==
    /\ stack = <<>>
    /\ metadataResults = <<>>
    /\ contentResults = <<>>
    /\ processLog = <<>>
    /\ errorLog = <<>>
    /\ timestamp = 0
    /\ returned = 0
    /\ report = NoReport

CliIdle ==
    /\ metadataRun = NoRunResult
    /\ contentRun = NoRunResult
    /\ cliResults = NoReport

NoRun ==
    /\ disk = EmptyDisk
    /\ clock = 1
    /\ pc = "idle"
    /\ exitCode = Running
    /\ AuditIdle
    /\ CliIdle

----------------------------------------------------------------------------
(* The auditors applied to one document *)

InitAuditors ==
    /\ \/ \E t \in TitleLens, d \in DescShapes, v \in ViewportKinds,
             c \in CharsetKinds, h \in 0..MaxH1, k \in CanonicalKinds :
              doc = MetaDoc(t, d, v, c, h, k)
       \/ \E ts \in TextShapes, h \in 0..MaxH1, sub \in SubHeadings,
             im \in (0..MaxNoAlt) \X (0..MaxEmptyAlt) \X (0..MaxTextAlt),
             sl \in (0..MaxSemantic) \X (0..MaxLinks) :
              doc = ContentDoc(ts, h, sub, im, sl)
    /\ metaResult = NoResult
    /\ contentResult = NoResult
    /\ LabelIdle
    /\ NoTree
    /\ NoRun

RunAuditMetadata ==
    /\ metaResult = NoResult
    /\ metaResult' = auditMetadata("doc.html", doc)
    /\ UNCHANGED <<doc, contentResult>>
    /\ UNCHANGED <<labelVars, treeVars, runVars, auditVars, cliVars>>

RunAuditContent ==
    /\ contentResult = NoResult
    /\ contentResult' = auditContent("doc.html", doc)
    /\ UNCHANGED <<doc, metaResult>>
    /\ UNCHANGED <<labelVars, treeVars, runVars, auditVars, cliVars>>

NextAuditors == RunAuditMetadata \/ RunAuditContent

vars == <<unitVars, labelVars, treeVars, runVars, auditVars, cliVars>>

SpecAuditors == InitAuditors /\ [][NextAuditors]_vars

----------------------------------------------------------------------------
(* generateRatingLabel applied to two scores *)

InitLabel ==
    /\ UnitIdle
    /\ NoTree
    /\ NoRun
    /\ ratingIn \in 0..MaxScore
    /\ prevIn \in 0..MaxScore
    /\ ratingOut = "none"
    /\ prevOut = "none"

RatePrevious ==
    /\ prevOut = "none"
    /\ prevOut' = generateRatingLabel(prevIn)
    /\ UNCHANGED <<ratingIn, ratingOut, prevIn>>
    /\ UNCHANGED <<unitVars, treeVars, runVars, auditVars, cliVars>>

RateScore ==
    /\ prevOut # "none"
    /\ ratingOut = "none"
    /\ ratingOut' = generateRatingLabel(ratingIn)
    /\ UNCHANGED <<ratingIn, prevIn, prevOut>>
    /\ UNCHANGED <<unitVars, treeVars, runVars, auditVars, cliVars>>

NextLabel == RatePrevious \/ RateScore

SpecLabel == InitLabel /\ [][NextLabel]_vars

----------------------------------------------------------------------------
(* seo-audit.js: processDirectory, processFiles, generateHTMLReport *)

\* Array.prototype.sort((a, b) => a.normalizedScore - b.normalizedScore):
\* ascending and stable
RECURSIVE InsertByScore(_, _)
InsertByScore(q, r) ==
    IF q = <<>> THEN <<r>>
    ELSE IF q[Len(q)].normalizedScore <= r.normalizedScore THEN Append(q, r)
    ELSE Append(InsertByScore(SubSeq(q, 1, Len(q) - 1), r), q[Len(q)])

RECURSIVE SortByScore(_)
SortByScore(q) ==
    IF q = <<>> THEN <<>>
    ELSE InsertByScore(SortByScore(SubSeq(q, 1, Len(q) - 1)), q[Len(q)])

RECURSIVE SumScores(_)
SumScores(q) ==
    IF q = <<>> THEN 0 ELSE q[1].normalizedScore + SumScores(Tail(q))

\* an average that truncates instead of rounding
AverageScoreTruncating(results) ==
    IF Len(results) = 0 THEN NaN ELSE SumScores(results) \div Len(results)

\* Math.round(results.reduce(sum of normalizedScore, 0) / results.length)
AverageScore(results) == JsRoundDiv(SumScores(results), Len(results))

\* Math.round((a + b) / 2)
OverallOf(a, b) ==
    IF IsNaN(a) \/ IsNaN(b) THEN NaN ELSE Round(a + b, 2)

\* the scores and labels generateHTMLReport puts into the page
Aggregate(mResults, cResults) ==
    LET totalMetadataScore == AverageScore(mResults)
        totalContentScore == AverageScore(cResults)
        overallScore == OverallOf(totalMetadataScore, totalContentScore)
    IN  [kind |-> "html",
         totalMetadataScore |-> totalMetadataScore,
         totalContentScore |-> totalContentScore,
         overallScore |-> overallScore,
         metadataLabel |-> generateRatingLabel(totalMetadataScore),
         contentLabel |-> generateRatingLabel(totalContentScore),
         overallLabel |-> generateRatingLabel(overallScore),
         metadataResults |-> mResults,
         contentResults |-> cResults]

\* an uncaught exception ends the script with exit code 1
Crash ==
    /\ pc' = "crashed"
    /\ exitCode' = 1

InitAudit ==
    /\ UnitIdle
    /\ LabelIdle
    /\ rootKind \in {"dir", "file", "missing"}
    /\ files \in [HtmlFiles -> FileOptions]
    /\ rootKind # "dir" => \A p \in HtmlFiles : files[p].state = "absent"
    /\ targetDir = "site"
    /\ history = <<>>
    /\ NoWorkers
    /\ NoSitemapRun
    /\ NoDistRun
    /\ disk \in {EmptyDisk, PriorDisk}
    /\ clock = 1
    /\ pc = "start"
    /\ exitCode = Running
    /\ AuditIdle
    /\ CliIdle

\* processDirectory(targetDir) up to the first fs.readdirSync, which throws
\* when the path is missing or is not a directory
StartAudit ==
    /\ pc = "start"
    /\ IF rootKind = "dir"
       THEN /\ stack' = <<[dir |-> ".", idx |-> 1]>>
            /\ pc' = "walk"
            /\ UNCHANGED exitCode
       ELSE /\ Crash
            /\ UNCHANGED stack
    /\ UNCHANGED <<disk, clock, metadataResults, contentResults, processLog,
                   errorLog, timestamp, returned, report>>
    /\ UNCHANGED <<unitVars, labelVars, treeVars, cliVars>>

Top == stack[Len(stack)]
TopEntry == Entries(Top.dir)[Top.idx]
AtEntry == pc = "walk" /\ Top.idx <= Len(Entries(Top.dir))
Advanced == [stack EXCEPT ![Len(stack)].idx = @ + 1]

\* entry.isDirectory(): processFiles(entryPath)
EnterDirectory ==
    /\ AtEntry
    /\ TopEntry.kind = "dir"
    /\ stack' = Append(Advanced, [dir |-> TopEntry.path, idx |-> 1])
    /\ UNCHANGED <<metadataResults, contentResults, processLog, errorLog,
                   timestamp, returned, report>>
    /\ UNCHANGED <<unitVars, labelVars, treeVars, runVars, cliVars>>

\* entry.isFile() && entry.name.endsWith('.html')
IsHtmlEntry(e) == e.kind = "file" /\ e.path # "notes.txt"

\* a try block that pushes the metadata result before auditContent runs
AuditFilePushingEarly ==
    /\ AtEntry
    /\ IsHtmlEntry(TopEntry)
    /\ LET e == TopEntry
           f == FileOf(e)
       IN  /\ processLog' = Append(processLog, e.path)
           /\ metadataResults' =
                  IF f.state \in {"html", "vanishing"}
                  THEN Append(metadataResults, auditMetadata(e.name, f.doc))
                  ELSE metadataResults
           /\ contentResults' =
                  IF f.state = "html"
                  THEN Append(contentResults, auditContent(e.name, f.doc))
                  ELSE contentResults
           /\ errorLog' = IF f.state = "html" THEN errorLog
                          ELSE Append(errorLog, e.path)
    /\ stack' = Advanced
    /\ UNCHANGED <<timestamp, returned, report>>
    /\ UNCHANGED <<unitVars, labelVars, treeVars, runVars, cliVars>>

\* a try block that keeps each list sorted by score as it pushes
AuditFileSorting ==
    /\ AtEntry
    /\ IsHtmlEntry(TopEntry)
    /\ LET e == TopEntry
           f == FileOf(e)
       IN  /\ processLog' = Append(processLog, e.path)
           /\ IF f.state = "html"
              THEN /\ metadataResults' =
                          SortByScore(Append(metadataResults,
                                             auditMetadata(e.name, f.doc)))
                   /\ contentResults' =
                          SortByScore(Append(contentResults,
                                             auditContent(e.name, f.doc)))
                   /\ UNCHANGED errorLog
              ELSE /\ errorLog' = Append(errorLog, e.path)
                   /\ UNCHANGED <<metadataResults, contentResults>>
    /\ stack' = Advanced
    /\ UNCHANGED <<timestamp, returned, report>>
    /\ UNCHANGED <<unitVars, labelVars, treeVars, runVars, cliVars>>

\* a try block whose audits consume the file they read
AuditFileConsuming ==
    /\ AtEntry
    /\ IsHtmlEntry(TopEntry)
    /\ LET e == TopEntry
           f == FileOf(e)
       IN  /\ processLog' = Append(processLog, e.path)
           /\ IF f.state = "html"
              THEN /\ metadataResults' =
                          Append(metadataResults, auditMetadata(e.name, f.doc))
                   /\ contentResults' =
                          Append(contentResults, auditContent(e.name, f.doc))
                   /\ UNCHANGED errorLog
              ELSE /\ errorLog' = Append(errorLog, e.path)
                   /\ UNCHANGED <<metadataResults, contentResults>>
           /\ files' = IF e.path \in HtmlFiles
                       THEN [files EXCEPT ![e.path].state = "absent"]
                       ELSE files
    /\ stack' = Advanced
    /\ UNCHANGED <<timestamp, returned, report>>
    /\ UNCHANGED <<rootKind, targetDir, history, inflight, sitemap, dist>>
    /\ UNCHANGED <<unitVars, labelVars, runVars, cliVars>>

\* the try block of processFiles: both audits, then both pushes; the catch
\* logs the error
AuditFile ==
    /\ AtEntry
    /\ IsHtmlEntry(TopEntry)
    /\ LET e == TopEntry
           f == FileOf(e)
       IN  /\ processLog' = Append(processLog, e.path)
           /\ IF f.state = "html"
              THEN /\ metadataResults' =
                          Append(metadataResults, auditMetadata(e.name, f.doc))
                   /\ contentResults' =
                          Append(contentResults, auditContent(e.name, f.doc))
                   /\ UNCHANGED errorLog
              ELSE /\ errorLog' = Append(errorLog, e.path)
                   /\ UNCHANGED <<metadataResults, contentResults>>
    /\ stack' = Advanced
    /\ UNCHANGED <<timestamp, returned, report>>
    /\ UNCHANGED <<unitVars, labelVars, treeVars, runVars, cliVars>>

\* neither a directory nor a file named *.html
SkipEntry ==
    /\ AtEntry
    /\ TopEntry.kind = "file"
    /\ ~IsHtmlEntry(TopEntry)
    /\ stack' = Advanced
    /\ UNCHANGED <<metadataResults, contentResults, processLog, errorLog,
                   timestamp, returned, report>>
    /\ UNCHANGED <<unitVars, labelVars, treeVars, runVars, cliVars>>

\* the loop of a nested processFiles call ends
ReturnFromDirectory ==
    /\ pc = "walk"
    /\ Top.idx > Len(Entries(Top.dir))
    /\ Len(stack) > 1
    /\ stack' = SubSeq(stack, 1, Len(stack) - 1)
    /\ UNCHANGED <<metadataResults, contentResults, processLog, errorLog,
                   timestamp, returned, report>>
    /\ UNCHANGED <<unitVars, labelVars, treeVars, runVars, cliVars>>

\* processFiles(directory) returns: both arrays are sorted and the
\* timestamp of the report name is taken (lines 628-636)
FinishWalk ==
    /\ pc = "walk"
    /\ Top.idx > Len(Entries(Top.dir))
    /\ Len(stack) = 1
    /\ stack' = <<>>
    /\ metadataResults' = SortByScore(metadataResults)
    /\ contentResults' = SortByScore(contentResults)
    /\ timestamp' = clock
    /\ pc' = "mkdir"
    /\ UNCHANGED <<disk, clock, exitCode, processLog, errorLog, returned, report>>
    /\ UNCHANGED <<unitVars, labelVars, treeVars, cliVars>>

\* lines 638-641: fs.mkdirSync('seo-report') unless it exists
EnsureReportDir ==
    /\ pc = "mkdir"
    /\ \E ok \in BOOLEAN :
          IF disk.dirExists
          THEN /\ ok
               /\ pc' = "render"
               /\ UNCHANGED <<disk, exitCode>>
          ELSE IF ok
          THEN /\ disk' = [disk EXCEPT !.dirExists = TRUE]
               /\ pc' = "render"
               /\ UNCHANGED exitCode
          ELSE /\ Crash
               /\ UNCHANGED disk
    /\ UNCHANGED clock
    /\ UNCHANGED <<unitVars, labelVars, treeVars, auditVars, cliVars>>

\* generateHTMLReport (lines 325-598): the scores, a timestamp of its own,
\* the page written under that timestamp, and the path of the page returned
RenderReport ==
    /\ pc = "render"
    /\ \E tick \in 0..MaxTick, ok \in BOOLEAN :
          /\ clock' = clock + tick
          /\ report' = Aggregate(metadataResults, contentResults)
          /\ IF ok
             THEN /\ disk' = [disk EXCEPT !.stamped =
                                  (clock' :> report') @@ @]
                  /\ returned' = clock'
                  /\ pc' = "writeStamped"
                  /\ UNCHANGED exitCode
             ELSE /\ Crash
                  /\ UNCHANGED <<disk, returned>>
    /\ UNCHANGED <<stack, metadataResults, contentResults, processLog,
                   errorLog, timestamp>>
    /\ UNCHANGED <<unitVars, labelVars, treeVars, cliVars>>

\* line 645: fs.writeFileSync(reportPath, htmlReport), htmlReport being the
\* path generateHTMLReport returned
WriteStamped ==
    /\ pc = "writeStamped"
    /\ \E ok \in BOOLEAN :
          IF ok
          THEN /\ disk' = [disk EXCEPT !.stamped =
                               (timestamp :> [kind |-> "path",
                                              stamp |-> returned]) @@ @]
               /\ pc' = "unlinkLatest"
               /\ UNCHANGED exitCode
          ELSE /\ Crash
               /\ UNCHANGED disk
    /\ UNCHANGED clock
    /\ UNCHANGED <<unitVars, labelVars, treeVars, auditVars, cliVars>>

\* lines 648-651: fs.unlinkSync of seo-report/seo-report.html if it exists
UnlinkLatest ==
    /\ pc = "unlinkLatest"
    /\ \E ok \in BOOLEAN :
          IF disk.latest = NoFile
          THEN /\ ok
               /\ pc' = "copyLatest"
               /\ UNCHANGED <<disk, exitCode>>
          ELSE IF ok
          THEN /\ disk' = [disk EXCEPT !.latest = NoFile]
               /\ pc' = "copyLatest"
               /\ UNCHANGED exitCode
          ELSE /\ Crash
               /\ UNCHANGED disk
    /\ UNCHANGED clock
    /\ UNCHANGED <<unitVars, labelVars, treeVars, auditVars, cliVars>>

\* line 652: fs.copyFileSync(reportPath, latestReportPath), then the script
\* ends
CopyLatest ==
    /\ pc = "copyLatest"
    /\ \E ok \in BOOLEAN :
          IF ok
          THEN /\ disk' = [disk EXCEPT !.latest = disk.stamped[timestamp]]
               /\ pc' = "done"
               /\ exitCode' = 0
          ELSE /\ Crash
               /\ UNCHANGED disk
    /\ UNCHANGED clock
    /\ UNCHANGED <<unitVars, labelVars, treeVars, auditVars, cliVars>>

NextAudit ==
    \/ StartAudit
    \/ EnterDirectory
    \/ AuditFile
    \/ SkipEntry
    \/ ReturnFromDirectory
    \/ FinishWalk
    \/ EnsureReportDir
    \/ RenderReport
    \/ WriteStamped
    \/ UnlinkLatest
    \/ CopyLatest

SpecAudit == InitAudit /\ [][NextAudit]_vars

----------------------------------------------------------------------------
(* The audit script run again and again over one tree *)

\* what a run that has ended leaves to the next
Outcome ==
    [exitCode |-> exitCode, timestamp |-> timestamp, returned |-> returned,
     report |-> report, metadataResults |-> metadataResults,
     contentResults |-> contentResults, processLog |-> processLog,
     stamped |-> disk.stamped, latest |-> disk.latest]

RunFileOptions ==
    {[state |-> st, doc |-> GoodDoc] : st \in {"absent", "unreadable"}}
    \cup {[state |-> "html", doc |-> d] : d \in {GoodDoc, PoorDoc}}

\* the pages a/index.html and a/b/page.html, in or next to the working
\* directory, and no report directory yet
InitRuns ==
    /\ UnitIdle
    /\ LabelIdle
    /\ rootKind = "dir"
    /\ targetDir \in {".", "site"}
    /\ files \in [HtmlFiles -> RunFileOptions]
    /\ \A p \in {".cache/h.html", "node_modules/skip.html"} :
           files[p].state = "absent"
    /\ history = <<>>
    /\ NoWorkers
    /\ NoSitemapRun
    /\ NoDistRun
    /\ disk = EmptyDisk
    /\ clock = 1
    /\ pc = "start"
    /\ exitCode = Running
    /\ AuditIdle
    /\ CliIdle

\* the script is started anew (line 659), later than the run before it
\* ended: empty arrays (lines 602-603), the tree and the report directory
\* as they are
RunAgain ==
    /\ pc \in {"done", "crashed"}
    /\ Len(history) + 1 < MaxRuns
    /\ history' = Append(history, Outcome)
    /\ clock' = clock + 1
    /\ pc' = "start"
    /\ exitCode' = Running
    /\ stack' = <<>>
    /\ metadataResults' = <<>>
    /\ contentResults' = <<>>
    /\ processLog' = <<>>
    /\ errorLog' = <<>>
    /\ timestamp' = 0
    /\ returned' = 0
    /\ report' = NoReport
    /\ UNCHANGED <<rootKind, files, targetDir, inflight, sitemap, dist, disk>>
    /\ UNCHANGED <<unitVars, labelVars, cliVars>>

NextRuns == NextAudit \/ RunAgain

SpecRuns == InitRuns /\ [][NextRuns]_vars

----------------------------------------------------------------------------
(* The files of a tree audited by workers, in any order and interleaved,   *)
(* after the sequential walk has audited them: each worker runs the try    *)
(* block of processFiles (lines 614-623) on one file, and the results are  *)
(* sorted and aggregated as processDirectory does when all have ended      *)

Basename(p) ==
    CASE p = ".cache/h.html" -> "h.html"
      [] p = "a/b/page.html" -> "page.html"
      [] p = "a/index.html" -> "index.html"
      [] p = "node_modules/skip.html" -> "skip.html"

InitAnyOrder ==
    /\ UnitIdle
    /\ LabelIdle
    /\ rootKind = "dir"
    /\ targetDir = "site"
    /\ files \in [HtmlFiles -> RunFileOptions]
    /\ files["node_modules/skip.html"].state = "absent"
    /\ history = <<>>
    /\ NoWorkers
    /\ NoSitemapRun
    /\ NoDistRun
    /\ disk = EmptyDisk
    /\ clock = 1
    /\ pc = "start"
    /\ exitCode = Running
    /\ AuditIdle
    /\ CliIdle

\* the sequential run has ended; the workers start from empty arrays
StartWorkers ==
    /\ pc = "done"
    /\ history = <<>>
    /\ history' = <<Outcome>>
    /\ pc' = "workers"
    /\ exitCode' = Running
    /\ stack' = <<>>
    /\ metadataResults' = <<>>
    /\ contentResults' = <<>>
    /\ processLog' = <<>>
    /\ errorLog' = <<>>
    /\ timestamp' = 0
    /\ returned' = 0
    /\ report' = NoReport
    /\ UNCHANGED <<rootKind, files, targetDir, inflight, sitemap, dist, disk, clock>>
    /\ UNCHANGED <<unitVars, labelVars, cliVars>>

\* lines 615-616: a worker takes a file and calls auditMetadata, which
\* throws when the file cannot be read (lines 621-623)
WorkerAuditsMetadata ==
    /\ pc = "workers"
    /\ \E p \in HtmlFiles :
          /\ files[p].state # "absent"
          /\ inflight[p].stage = "idle"
          /\ processLog' = Append(processLog, p)
          /\ IF files[p].state = "html"
             THEN /\ inflight' =
                         [inflight EXCEPT
                            ![p].stage = "metadata",
                            ![p].metadata =
                                auditMetadata(Basename(p), files[p].doc)]
                  /\ UNCHANGED errorLog
             ELSE /\ inflight' = [inflight EXCEPT ![p].stage = "failed"]
                  /\ errorLog' = Append(errorLog, p)
    /\ UNCHANGED <<stack, metadataResults, contentResults, timestamp,
                   returned, report>>
    /\ UNCHANGED <<rootKind, files, targetDir, history, sitemap, dist>>
    /\ UNCHANGED <<unitVars, labelVars, runVars, cliVars>>

\* line 617: the worker calls auditContent
WorkerAuditsContent ==
    /\ pc = "workers"
    /\ \E p \in HtmlFiles :
          /\ inflight[p].stage = "metadata"
          /\ inflight' =
                 [inflight EXCEPT
                    ![p].stage = "content",
                    ![p].content = auditContent(Basename(p), files[p].doc)]
    /\ UNCHANGED <<rootKind, files, targetDir, history, sitemap, dist>>
    /\ UNCHANGED <<unitVars, labelVars, runVars, auditVars, cliVars>>

\* lines 619-620: the worker pushes its two results
WorkerPushes ==
    /\ pc = "workers"
    /\ \E p \in HtmlFiles :
          /\ inflight[p].stage = "content"
          /\ metadataResults' = Append(metadataResults, inflight[p].metadata)
          /\ contentResults' = Append(contentResults, inflight[p].content)
          /\ inflight' = [inflight EXCEPT ![p].stage = "pushed"]
    /\ UNCHANGED <<stack, processLog, errorLog, timestamp, returned, report>>
    /\ UNCHANGED <<rootKind, files, targetDir, history, sitemap, dist>>
    /\ UNCHANGED <<unitVars, labelVars, runVars, cliVars>>

\* all workers have ended: lines 630-632 and the scores of lines 326-335
JoinWorkers ==
    /\ pc = "workers"
    /\ \A p \in HtmlFiles :
          files[p].state # "absent" => inflight[p].stage \in {"pushed", "failed"}
    /\ metadataResults' = SortByScore(metadataResults)
    /\ contentResults' = SortByScore(contentResults)
    /\ report' = Aggregate(metadataResults', contentResults')
    /\ pc' = "joined"
    /\ UNCHANGED <<disk, clock, exitCode>>
    /\ UNCHANGED <<stack, processLog, errorLog, timestamp, returned>>
    /\ UNCHANGED <<unitVars, labelVars, treeVars, cliVars>>

NextAnyOrder ==
    \/ NextAudit
    \/ StartWorkers
    \/ WorkerAuditsMetadata
    \/ WorkerAuditsContent
    \/ WorkerPushes
    \/ JoinWorkers

SpecAnyOrder == InitAnyOrder /\ [][NextAnyOrder]_vars

----------------------------------------------------------------------------
(* The sitemap generators: scripts/consolidated/sitemap.js ("consolidated") *)
(* and unnamed/part_004 ("standalone"). Both race the generation against a *)
(* timer. pc is "load" while the module is evaluated, "awaiting" while the  *)
(* stream has not ended, "settled" when it has and only the timer keeps    *)
(* the process alive, "exited" at the end.                                 *)

\* const timeout, sitemap.js:158 and part_004:17
TimeoutConsolidated == 30000
TimeoutStandalone == 10000

\* race: the promise of Promise.race; timedOut: the timer has fired while
\* the generation had not ended; file: the sitemap, and whether it was
\* written after that
FreshSitemap(script) ==
    [script |-> script, timer |-> "unset", deadline |-> 0,
     race |-> "pending", timedOut |-> FALSE,
     file |-> "none", robots |-> "none"]

InitSitemap ==
    /\ UnitIdle
    /\ LabelIdle
    /\ rootKind \in {"dir", "missing"}
    /\ files = [p \in HtmlFiles |-> [state |-> "absent", doc |-> GoodDoc]]
    /\ targetDir = "site"
    /\ history = <<>>
    /\ NoWorkers
    /\ sitemap \in {FreshSitemap("consolidated"), FreshSitemap("standalone")}
    /\ sitemap.script = "standalone" => rootKind = "dir"
    /\ NoDistRun
    /\ disk = EmptyDisk
    /\ clock = 0
    /\ pc = "load"
    /\ exitCode = Running
    /\ AuditIdle
    /\ CliIdle

Exit(code) ==
    /\ pc' = "exited"
    /\ exitCode' = code

SitemapFrame ==
    /\ UNCHANGED <<rootKind, files, targetDir, history, inflight, dist, disk>>
    /\ UNCHANGED <<unitVars, labelVars, auditVars, cliVars>>

\* sitemap.js:157-164: the timer is set, then main() runs up to its await:
\* findHtmlFiles, which blocks the event loop for the time it takes and
\* throws on a missing directory (main's catch exits with 1, lines 151-154),
\* and the start of the stream
LoadConsolidated ==
    /\ pc = "load"
    /\ sitemap.script = "consolidated"
    /\ \E took \in {0, TickMs} :
          /\ clock' = clock + took
          /\ sitemap' = [sitemap EXCEPT !.timer = "armed",
                                        !.deadline = clock + TimeoutConsolidated]
          /\ IF rootKind = "dir"
             THEN /\ pc' = "awaiting"
                  /\ UNCHANGED exitCode
             ELSE Exit(1)
    /\ SitemapFrame

\* part_004:38-55: generateSitemap() runs up to its await, the timer is set,
\* the race gets its catch, and robots.txt is written; an exception of that
\* write is uncaught
LoadStandalone ==
    /\ pc = "load"
    /\ sitemap.script = "standalone"
    /\ \E ok \in BOOLEAN :
          /\ sitemap' = [sitemap EXCEPT !.timer = "armed",
                                        !.deadline = clock + TimeoutStandalone,
                                        !.robots = IF ok THEN "written" ELSE @]
          /\ IF ok
             THEN /\ pc' = "awaiting"
                  /\ UNCHANGED exitCode
             ELSE Exit(1)
    /\ UNCHANGED clock
    /\ SitemapFrame

\* time passes while the event loop waits; a timer that is due fires before
\* more time passes
Tick ==
    /\ pc \in {"awaiting", "settled"}
    /\ clock < MaxWaitTicks * TickMs
    /\ ~(sitemap.timer = "armed" /\ clock >= sitemap.deadline)
    /\ clock' = clock + TickMs
    /\ UNCHANGED <<pc, exitCode, sitemap>>
    /\ SitemapFrame

\* the file as a write leaves it: written after the timer has fired, or
\* before
Written == IF sitemap.timer = "fired" THEN "writtenAfterTimeout" ELSE "written"

\* sitemap.js:83-86 and 139-150: the stream ends, main resumes, writes the
\* sitemap and robots.txt and returns; an exception of a write, or the
\* stream's error (lines 87-90), reaches main's catch, which exits with 1
StreamEndsConsolidated ==
    /\ pc = "awaiting"
    /\ sitemap.script = "consolidated"
    /\ \E streamOk, sitemapOk, robotsOk \in BOOLEAN :
          IF streamOk /\ sitemapOk /\ robotsOk
          THEN /\ sitemap' = [sitemap EXCEPT !.file = Written,
                                             !.robots = "written",
                                             !.race = "resolved"]
               /\ pc' = "settled"
               /\ UNCHANGED exitCode
          ELSE /\ sitemap' = [sitemap EXCEPT
                                 !.file = IF streamOk /\ sitemapOk
                                          THEN Written ELSE @]
               /\ Exit(1)
    /\ UNCHANGED clock
    /\ SitemapFrame

\* part_004:25-35: the stream ends and generateSitemap writes the sitemap;
\* every exception is caught and logged (lines 33-35), so the promise and
\* with it the race, if still pending, resolve. With the timer fired nothing
\* keeps the process alive
StreamEndsStandalone ==
    /\ pc = "awaiting"
    /\ sitemap.script = "standalone"
    /\ \E ok \in BOOLEAN :
          sitemap' = [sitemap EXCEPT
                        !.file = IF ok THEN Written ELSE @,
                        !.race = IF @ = "pending" THEN "resolved" ELSE @]
    /\ IF sitemap.timer = "fired"
       THEN Exit(0)
       ELSE /\ pc' = "settled"
            /\ UNCHANGED exitCode
    /\ UNCHANGED clock
    /\ SitemapFrame

\* a timer whose rejection reaches the catch of the race whether or not
\* the race is still pending
TimerFiresRegardless ==
    /\ pc \in {"awaiting", "settled"}
    /\ sitemap.timer = "armed"
    /\ clock >= sitemap.deadline
    /\ sitemap' = [sitemap EXCEPT !.timer = "fired", !.race = "rejected",
                                  !.timedOut = pc = "awaiting"]
    /\ IF sitemap.script = "consolidated" THEN Exit(1)
       ELSE IF pc = "settled" THEN Exit(0)
       ELSE UNCHANGED <<pc, exitCode>>
    /\ UNCHANGED clock
    /\ SitemapFrame

\* the callback of setTimeout rejects timeoutPromise. sitemap.js:164-167:
\* the catch of a race still pending prints the error and exits with 1.
\* part_004:45: the catch prints the message, and the generation goes on.
\* A race already resolved ignores the rejection, and the process ends
TimerFires ==
    /\ pc \in {"awaiting", "settled"}
    /\ sitemap.timer = "armed"
    /\ clock >= sitemap.deadline
    /\ sitemap' = [sitemap EXCEPT
                      !.timer = "fired",
                      !.race = IF @ = "pending" THEN "rejected" ELSE @,
                      !.timedOut = pc = "awaiting"]
    /\ IF pc = "settled" THEN Exit(0)
       ELSE IF sitemap.script = "consolidated" THEN Exit(1)
       ELSE UNCHANGED <<pc, exitCode>>
    /\ UNCHANGED clock
    /\ SitemapFrame

NextSitemap ==
    \/ LoadConsolidated
    \/ LoadStandalone
    \/ Tick
    \/ StreamEndsConsolidated
    \/ StreamEndsStandalone
    \/ TimerFires

SpecSitemap == InitSitemap /\ [][NextSitemap]_vars

----------------------------------------------------------------------------
(* The metadata checker, scripts/consolidated/metadata.js, with the checks  *)
(* and thresholds of seoConfig                                             *)

\* findHtmlFiles(dir): every *.html below dir, subdirectories included
RECURSIVE FindHtmlFiles(_)
RECURSIVE FindInEntries(_)
FindInEntries(es) ==
    IF es = <<>> THEN <<>>
    ELSE LET e == Head(es)
             found == IF e.kind = "dir" THEN FindHtmlFiles(e.path)
                      ELSE IF e.path \in HtmlFiles THEN <<e.path>>
                      ELSE <<>>
         IN  found \o FindInEntries(Tail(es))

FindHtmlFiles(dir) == FindInEntries(Entries(dir))

Count(b) == IF b THEN 1 ELSE 0

\* checkHtmlFile: the number of seoConfig.checks.metadata the page passes
PassCount(d) ==
    Count(d.titleLen > 0 /\ d.titleLen < 60)
    + Count(d.desc = "content" /\ d.descLen > 10 /\ d.descLen < 160)
    + Count(d.viewport = "deviceWidth")
    + Count(d.charset = "value")
    + Count(d.h1 = 1)
    + Count(d.canonical = "href")

TotalChecks == 6

RECURSIVE PassedChecks(_)
PassedChecks(paths) ==
    IF paths = <<>> THEN 0
    ELSE PassCount(files[Head(paths)].doc) + PassedChecks(Tail(paths))

\* getScoreRating and getOverallRating: seoConfig.thresholds.metadata
getScoreRating(score) ==
    IF IsNaN(score) THEN "Very Poor"
    ELSE IF score >= 90 THEN "Excellent"
    ELSE IF score >= 80 THEN "Good"
    ELSE IF score >= 70 THEN "Fair"
    ELSE IF score >= 60 THEN "Poor"
    ELSE "Very Poor"

SomeUnreadable(paths) ==
    \E i \in 1..Len(paths) : files[paths[i]].state # "html"

\* main of metadata.js as runScript sees it: the process fails when the
\* directory cannot be listed or a file cannot be read; otherwise its output
\* ends with "SEO Score: <score>/100 (<rating>)"
MetadataScript ==
    IF rootKind # "dir" \/ SomeUnreadable(FindHtmlFiles("."))
    THEN [success |-> FALSE, started |-> TRUE]
    ELSE LET htmlFiles == FindHtmlFiles(".")
             totalChecks == TotalChecks * Len(htmlFiles)
             score == JsRoundDiv(PassedChecks(htmlFiles) * 100, totalChecks)
         IN  [success |-> TRUE, started |-> TRUE, summary |-> TRUE,
              score |-> score, rating |-> getScoreRating(score)]

----------------------------------------------------------------------------
(* The content analyzer, unnamed/part_009 *)

Min(a, b) == IF a <= b THEN a ELSE b
Max(a, b) == IF a >= b THEN a ELSE b

\* calculateReadability: Flesch Reading Ease,
\* 206.835 - 1.015 * (words / sentences) - 84.6 * (syllables / words),
\* rounded and clamped to 0..100. The score is num / den with the
\* coefficients in two-hundredths (206.835 = 41367 / 200), and
\* Math.round(x) is the floor of x + 1/2.
calculateReadability(d) ==
    IF d.sentences = 0 \/ d.wordCount = 0 THEN 0
    ELSE LET w == d.wordCount
             n == d.sentences
             num == 41367 * w * n - 203 * w * w - 16920 * d.syllables * n
             den == 200 * w * n
         IN  Min(100, Max(0, (num + 100 * w * n) \div den))

getReadabilityRating(score) ==
    IF score >= 90 THEN "Very Easy"
    ELSE IF score >= 80 THEN "Easy"
    ELSE IF score >= 70 THEN "Fairly Easy"
    ELSE IF score >= 60 THEN "Standard"
    ELSE IF score >= 50 THEN "Fairly Difficult"
    ELSE IF score >= 30 THEN "Difficult"
    ELSE "Very Difficult"

RECURSIVE TotalReadability(_)
TotalReadability(paths) ==
    IF paths = <<>> THEN 0
    ELSE calculateReadability(files[Head(paths)].doc)
         + TotalReadability(Tail(paths))

\* main of the content analyzer as runScript sees it; the summary with
\* "Average Readability Score: <score>/100" is printed only when there are
\* files
ContentScript ==
    IF rootKind # "dir" \/ SomeUnreadable(FindHtmlFiles("."))
    THEN [success |-> FALSE, started |-> TRUE]
    ELSE LET htmlFiles == FindHtmlFiles(".")
         IN  IF Len(htmlFiles) = 0
             THEN [success |-> TRUE, started |-> TRUE, summary |-> FALSE,
                   score |-> 0, rating |-> "none"]
             ELSE LET score == Round(TotalReadability(htmlFiles),
                                     Len(htmlFiles))
                  IN  [success |-> TRUE, started |-> TRUE, summary |-> TRUE,
                       score |-> score,
                       rating |-> getReadabilityRating(score)]

----------------------------------------------------------------------------
(* The report generator, unnamed/part_008 *)

\* /SEO Score: (\d+)\/100 \(([^)]+)\)/ does not match "NaN/100", nor the
\* empty output of a failed script
extractMetadataScore(run) ==
    IF run.success /\ run.summary /\ ~IsNaN(run.score)
    THEN [score |-> run.score, rating |-> run.rating]
    ELSE [score |-> 0, rating |-> "Unknown"]

extractContentScore(run) ==
    IF run.success /\ run.summary
    THEN [readabilityScore |-> run.score, rating |-> run.rating]
    ELSE [readabilityScore |-> 0, rating |-> "Unknown"]

\* a blend that weighs the two scores evenly
calculateOverallScoreEven(metadataScore, contentScore) ==
    Round(5 * metadataScore + 5 * contentScore, 10)

\* Math.round(metadataScore * 0.6 + contentScore * 0.4)
calculateOverallScore(metadataScore, contentScore) ==
    Round(6 * metadataScore + 4 * contentScore, 10)

generateRecommendations(metadata, content) ==
    (IF metadata.score < 80 THEN <<"metadata.low">>
     ELSE IF metadata.score < 90 THEN <<"metadata.mid">>
     ELSE <<>>)
    \o (IF content.readabilityScore < 70 THEN <<"content.low">>
        ELSE IF content.readabilityScore < 80 THEN <<"content.mid">>
        ELSE <<>>)
    \o <<"general.1", "general.2", "general.3">>

\* the results object of main, lines 275-297
CliResults(mRun, cRun) ==
    LET metadataScore == extractMetadataScore(mRun)
        contentScore == extractContentScore(cRun)
        overallScore == calculateOverallScore(metadataScore.score,
                                              contentScore.readabilityScore)
    IN  [kind |-> "results",
         metadata |-> [score |-> metadataScore.score,
                       rating |-> metadataScore.rating,
                       output |-> mRun.success],
         content |-> [readabilityScore |-> contentScore.readabilityScore,
                      rating |-> contentScore.rating,
                      output |-> cRun.success],
         overallScore |-> overallScore,
         overallRating |-> getScoreRating(overallScore),
         recommendations |-> generateRecommendations(metadataScore,
                                                     contentScore)]

\* null of JSON
JsonNull == -2

\* a number as JSON.stringify writes it: NaN becomes null
JsonNumber(n) == IF IsNaN(n) THEN JsonNull ELSE n

\* JSON.stringify(results, null, 2), line 305
Stringify(results) ==
    [kind |-> "json",
     metadata |-> [results.metadata EXCEPT !.score = JsonNumber(@)],
     content |-> [results.content EXCEPT !.readabilityScore = JsonNumber(@)],
     overallScore |-> JsonNumber(results.overallScore),
     overallRating |-> results.overallRating,
     recommendations |-> results.recommendations]

InitReportCli ==
    /\ UnitIdle
    /\ LabelIdle
    /\ rootKind \in {"dir", "file", "missing"}
    /\ files \in [HtmlFiles -> {f \in FileOptions : f.state # "vanishing"}]
    /\ rootKind # "dir" => \A p \in HtmlFiles : files[p].state = "absent"
    /\ targetDir = "site"
    /\ history = <<>>
    /\ NoWorkers
    /\ NoSitemapRun
    /\ NoDistRun
    /\ disk \in {EmptyDisk, PriorDisk}
    /\ clock = 1
    /\ pc = "cliStart"
    /\ exitCode = Running
    /\ AuditIdle
    /\ CliIdle

\* ensureReportDirectory, lines 30-38; an exception reaches main().catch,
\* which exits with code 1
EnsureReportDirectory ==
    /\ pc = "cliStart"
    /\ \E ok \in BOOLEAN :
          IF disk.dirExists
          THEN /\ ok
               /\ pc' = "runMetadata"
               /\ UNCHANGED <<disk, exitCode>>
          ELSE IF ok
          THEN /\ disk' = [disk EXCEPT !.dirExists = TRUE]
               /\ pc' = "runMetadata"
               /\ UNCHANGED exitCode
          ELSE /\ Crash
               /\ UNCHANGED disk
    /\ UNCHANGED clock
    /\ UNCHANGED <<unitVars, labelVars, treeVars, auditVars, cliVars>>

\* line 269: runScript('./metadata.js', ...); a failure of the script is
\* caught in runScript and returned
RunMetadataScript ==
    /\ pc = "runMetadata"
    /\ metadataRun' = MetadataScript
    /\ pc' = "runContent"
    /\ UNCHANGED <<contentRun, cliResults>>
    /\ UNCHANGED <<disk, clock, exitCode>>
    /\ UNCHANGED <<unitVars, labelVars, treeVars, auditVars>>

\* line 273: runScript('./content.js', ...)
RunContentScript ==
    /\ pc = "runContent"
    /\ contentRun' = ContentScript
    /\ pc' = "writeHtml"
    /\ UNCHANGED <<metadataRun, cliResults>>
    /\ UNCHANGED <<disk, clock, exitCode>>
    /\ UNCHANGED <<unitVars, labelVars, treeVars, auditVars>>

\* lines 275-302: the results object, and seo-report.html written from it
WriteHtmlReport ==
    /\ pc = "writeHtml"
    /\ cliResults' = CliResults(metadataRun, contentRun)
    /\ \E ok \in BOOLEAN :
          IF ok
          THEN /\ disk' = [disk EXCEPT !.latest = cliResults']
               /\ pc' = "writeJson"
               /\ UNCHANGED exitCode
          ELSE /\ Crash
               /\ UNCHANGED disk
    /\ UNCHANGED <<metadataRun, contentRun>>
    /\ UNCHANGED clock
    /\ UNCHANGED <<unitVars, labelVars, treeVars, auditVars>>

\* lines 304-312: seo-report.json written, and main returns
WriteJsonReport ==
    /\ pc = "writeJson"
    /\ \E ok \in BOOLEAN :
          IF ok
          THEN /\ disk' = [disk EXCEPT !.json = Stringify(cliResults)]
               /\ pc' = "done"
               /\ exitCode' = 0
          ELSE /\ Crash
               /\ UNCHANGED disk
    /\ UNCHANGED clock
    /\ UNCHANGED <<unitVars, labelVars, treeVars, auditVars, cliVars>>

NextReportCli ==
    \/ EnsureReportDirectory
    \/ RunMetadataScript
    \/ RunContentScript
    \/ WriteHtmlReport
    \/ WriteJsonReport

SpecReportCli == InitReportCli /\ [][NextReportCli]_vars

----------------------------------------------------------------------------
(* The metadata optimizer, scripts/seo/metadata-optimizer.js, run in a      *)
(* working directory of its own. A file is a record as before, with the    *)
(* page name its base name gives (line 32). history holds one record per   *)
(* call of optimizeMetadata, clock counts the runs of the script.          *)

\* fs.readdirSync of each directory of the optimizer's working directory
OptimizerListing(dir) ==
    CASE dir = "." ->
           <<[name |-> ".git", kind |-> "dir", path |-> ".git"],
             [name |-> "blog", kind |-> "dir", path |-> "blog"],
             [name |-> "index.html", kind |-> "file", path |-> "index.html"],
             [name |-> "node_modules", kind |-> "dir", path |-> "node_modules"],
             [name |-> "notes.txt", kind |-> "file", path |-> "notes.txt"],
             [name |-> "seo-services.html", kind |-> "file",
              path |-> "seo-services.html"]>>
      [] dir = ".git" ->
           <<[name |-> "hook.html", kind |-> "file", path |-> ".git/hook.html"]>>
      [] dir = "blog" ->
           <<[name |-> "post.html", kind |-> "file", path |-> "blog/post.html"]>>
      [] dir = "node_modules" ->
           <<[name |-> "pkg.html", kind |-> "file",
              path |-> "node_modules/pkg.html"]>>

\* path.basename(filePath, '.html')
PageName(path) ==
    CASE path = "index.html" -> "index"
      [] path = "seo-services.html" -> "seo-services"
      [] path = "blog/post.html" -> "post"
      [] path = ".git/hook.html" -> "hook"
      [] path = "node_modules/pkg.html" -> "pkg"

\* processDirectory, lines 92-125: the files handed to optimizeMetadata, in
\* the order of the walk; names that start with "." and node_modules are
\* passed over, and so is what does not end in .html
RECURSIVE OptimizerWalk(_)
OptimizerWalk(entries) ==
    IF entries = <<>> THEN <<>>
    ELSE LET e == Head(entries)
             here == IF e.name \in {".git", "node_modules"} THEN <<>>
                     ELSE IF e.kind = "dir"
                          THEN OptimizerWalk(OptimizerListing(e.path))
                     ELSE IF e.path \in DOMAIN files
                             /\ files[e.path].state # "absent"
                          THEN <<e.path>>
                     ELSE <<>>
         IN  here \o OptimizerWalk(Tail(entries))

\* lines 12-67 of optimizeMetadata on a parsed page: the document and the
\* count of changes in memory when the function reaches line 69, or when
\* metaDesc.attr('content').length throws on a description meta without
\* content attribute (attr returns undefined, line 45). $('title').text(s)
\* sets the text of the title elements there are; the replacements of
\* lines 33-34 keep the length of the page name
Fixes(page, d) ==
    LET charsetFixed ==
            IF d.charset = "absent"
            THEN [doc |-> [d EXCEPT !.charset = "value"], changes |-> 1]
            ELSE [doc |-> d, changes |-> 0]
        viewportFixed ==
            IF d.viewport = "absent"
            THEN [doc |-> [charsetFixed.doc EXCEPT !.viewport = "deviceWidth"],
                  changes |-> charsetFixed.changes + 1]
            ELSE charsetFixed
        suggestedTitle == page \o " | Designed For You"
        titleFixed ==
            IF d.titleLen = 0 \/ d.titleLen < 10 \/ d.titleLen > 60
            THEN [doc |-> IF d.titleTag
                          THEN [viewportFixed.doc EXCEPT
                                  !.titleLen = Len(suggestedTitle),
                                  !.titleWords =
                                      4 + (IF page = "seo-services" THEN 2 ELSE 1),
                                  !.titleStops = 0]
                          ELSE viewportFixed.doc,
                  changes |-> viewportFixed.changes + 1]
            ELSE viewportFixed
        description ==
            "Discover " \o page \o " - Expert web design and development services by Designed For You. We create stunning, fast-loading websites tailored to your business needs."
        descFixed ==
            IF d.desc = "absent" \/ d.descLen < 10 \/ d.descLen > 160
            THEN [doc |-> [titleFixed.doc EXCEPT !.desc = "content",
                                                 !.descLen = Len(description)],
                  changes |-> titleFixed.changes + 1]
            ELSE titleFixed
        canonicalFixed ==
            IF d.canonical = "absent"
            THEN [doc |-> [descFixed.doc EXCEPT !.canonical = "href"],
                  changes |-> descFixed.changes + 1]
            ELSE descFixed
    IN  IF d.desc = "noContent"
        THEN [doc |-> titleFixed.doc, changes |-> titleFixed.changes,
              threw |-> TRUE]
        ELSE [doc |-> canonicalFixed.doc, changes |-> canonicalFixed.changes,
              threw |-> FALSE]

\* a page of the optimizer's directory: title element or none, and what the
\* optimizer looks at besides
OptimizerPage(tag, t, d, v, c, k) ==
    [state |-> "html",
     doc |-> [GoodDoc EXCEPT !.titleTag = tag,
                             !.titleLen = IF tag THEN t ELSE 0,
                             !.titleWords = IF tag /\ t > 0 THEN 1 ELSE 0,
                             !.desc = d[1], !.descLen = d[2], !.viewport = v,
                             !.charset = c, !.canonical = k]]

Unreadable == [state |-> "unreadable", doc |-> GoodDoc]
Absent == [state |-> "absent", doc |-> GoodDoc]

InitOptimizer ==
    /\ UnitIdle
    /\ LabelIdle
    /\ rootKind = "dir"
    /\ \E first \in {Unreadable}
                     \cup {OptimizerPage(tag, t, d, v, c, k) :
                              tag \in BOOLEAN, t \in TitleLens,
                              d \in DescShapes,
                              v \in {"absent", "other"},
                              c \in {"absent", "value"},
                              k \in CanonicalKinds},
          second \in {Absent, [state |-> "html", doc |-> GoodDoc],
                      [state |-> "html", doc |-> PoorDoc]},
          third \in {Absent, [state |-> "html", doc |-> MidDoc]} :
          files = [path \in {".git/hook.html", "blog/post.html", "index.html",
                             "node_modules/pkg.html", "seo-services.html"} |->
                     CASE path = "index.html" -> first
                       [] path = "seo-services.html" -> second
                       [] path = "blog/post.html" -> third
                       [] OTHER -> [state |-> "html", doc |-> PoorDoc]]
    /\ targetDir = "."
    /\ history = <<>>
    /\ NoWorkers
    /\ NoSitemapRun
    /\ NoDistRun
    /\ disk = EmptyDisk
    /\ clock = 1
    /\ pc = "optimizing"
    /\ exitCode = Running
    /\ AuditIdle
    /\ CliIdle

OptimizerFrame ==
    /\ UNCHANGED <<doc, contentResult, labelVars, cliVars>>
    /\ UNCHANGED <<rootKind, targetDir, inflight, sitemap, dist, disk>>
    /\ UNCHANGED <<stack, metadataResults, contentResults, timestamp,
                   returned, report>>

\* an optimizeMetadata that writes the file as soon as a fix has been made
OptimizeNextFileEagerly ==
    /\ pc = "optimizing"
    /\ Len(processLog) < Len(OptimizerWalk(OptimizerListing(".")))
    /\ LET path == OptimizerWalk(OptimizerListing("."))[Len(processLog) + 1]
           file == files[path]
           fixes == Fixes(PageName(path), file.doc)
       IN  \E writeOk \in BOOLEAN :
             LET threw == \/ file.state # "html"
                          \/ fixes.threw
                          \/ fixes.changes > 0 /\ ~writeOk
                 wrote == file.state = "html" /\ writeOk /\ fixes.changes > 0
             IN  /\ (file.state # "html" \/ fixes.changes = 0) => writeOk
                 /\ files' = IF wrote
                             THEN [files EXCEPT ![path].doc = fixes.doc]
                             ELSE files
                 /\ history' =
                        Append(history,
                               [run |-> clock, path |-> path, before |-> file,
                                after |-> files'[path], threw |-> threw,
                                pending |-> IF file.state = "html"
                                            THEN fixes.changes ELSE 0,
                                wrote |-> wrote,
                                returned |-> IF threw THEN 0 ELSE fixes.changes])
                 /\ errorLog' = IF threw THEN Append(errorLog, path)
                                         ELSE errorLog
                 /\ processLog' = Append(processLog, path)
    /\ metaResult' = NoResult
    /\ UNCHANGED <<clock, pc, exitCode>>
    /\ OptimizerFrame

\* the next call of optimizeMetadata of the walk (line 111): the file is
\* read and parsed, the fixes are made in memory, and the file is written
\* when there were changes (lines 76-82); the catch of lines 85-88 prints
\* the error of the read, of line 45 or of the write and returns 0. A write
\* that fails is one that could not open the file
OptimizeNextFile ==
    /\ pc = "optimizing"
    /\ Len(processLog) < Len(OptimizerWalk(OptimizerListing(".")))
    /\ LET path == OptimizerWalk(OptimizerListing("."))[Len(processLog) + 1]
           file == files[path]
           fixes == Fixes(PageName(path), file.doc)
       IN  \E writeOk \in BOOLEAN :
             LET threw == \/ file.state # "html"
                          \/ fixes.threw
                          \/ fixes.changes > 0 /\ ~writeOk
                 wrote == ~threw /\ fixes.changes > 0
             IN  /\ (file.state # "html" \/ fixes.threw \/ fixes.changes = 0)
                        => writeOk
                 /\ files' = IF wrote
                             THEN [files EXCEPT ![path].doc = fixes.doc]
                             ELSE files
                 /\ history' =
                        Append(history,
                               [run |-> clock, path |-> path, before |-> file,
                                after |-> files'[path], threw |-> threw,
                                pending |-> IF file.state = "html"
                                            THEN fixes.changes ELSE 0,
                                wrote |-> wrote,
                                returned |-> IF threw THEN 0 ELSE fixes.changes])
                 /\ errorLog' = IF threw THEN Append(errorLog, path)
                                         ELSE errorLog
                 /\ processLog' = Append(processLog, path)
    /\ metaResult' = NoResult
    /\ UNCHANGED <<clock, pc, exitCode>>
    /\ OptimizerFrame

\* auditMetadata of seo-audit.js run on the file the optimizer has just
\* been called for
AuditOptimized ==
    /\ pc \in {"optimizing", "done"}
    /\ history # <<>>
    /\ metaResult = NoResult
    /\ LET path == history[Len(history)].path
       IN  /\ files[path].state = "html"
           /\ metaResult' = auditMetadata(PageName(path) \o ".html",
                                          files[path].doc)
    /\ UNCHANGED <<files, history, processLog, errorLog>>
    /\ UNCHANGED <<clock, pc, exitCode>>
    /\ OptimizerFrame

\* lines 132-133: processDirectory has returned, the total is printed and
\* the script ends
FinishOptimizer ==
    /\ pc = "optimizing"
    /\ Len(processLog) = Len(OptimizerWalk(OptimizerListing(".")))
    /\ pc' = "done"
    /\ exitCode' = 0
    /\ UNCHANGED <<files, history, processLog, errorLog, metaResult, clock>>
    /\ OptimizerFrame

\* the script is run once more in the same directory
RunOptimizerAgain ==
    /\ pc = "done"
    /\ clock < MaxRuns
    /\ clock' = clock + 1
    /\ pc' = "optimizing"
    /\ exitCode' = Running
    /\ processLog' = <<>>
    /\ errorLog' = <<>>
    /\ metaResult' = NoResult
    /\ UNCHANGED <<files, history>>
    /\ OptimizerFrame

NextOptimizer ==
    \/ OptimizeNextFile
    \/ AuditOptimized
    \/ FinishOptimizer
    \/ RunOptimizerAgain

SpecOptimizer == InitOptimizer /\ [][NextOptimizer]_vars

----------------------------------------------------------------------------
(* The dist audit, unnamed/part_010 lines 1-117. dist tells whether the     *)
(* dist directory exists and whether the project has node_modules, what    *)
(* dist/audit-script.js, dist/node_modules and dist/package.json are, what *)
(* dist/node_modules was when the script started, and whether this run has *)
(* copied the audit script. pc is "load" while the module is evaluated,    *)
(* "installing" while npm install runs, "auditing" while the audit runs.   *)
(* The audit runs in dist, so that disk is the report directory            *)
(* dist/seo-report. The code of a child that a signal ended is null.       *)

InitDistAudit ==
    /\ UnitIdle
    /\ LabelIdle
    /\ rootKind = "dir"
    /\ files = [p \in HtmlFiles |-> [state |-> "absent", doc |-> GoodDoc]]
    /\ targetDir = "."
    /\ history = <<>>
    /\ NoWorkers
    /\ NoSitemapRun
    /\ \E exists, rootModules \in BOOLEAN, script \in {"none", "old"},
          nodeModules \in {"none", "dir", "foreignLink"},
          packageJson \in {"none", "old"} :
          /\ ~exists => /\ script = "none"
                        /\ nodeModules = "none"
                        /\ packageJson = "none"
          /\ dist = [exists |-> exists, rootModules |-> rootModules,
                     script |-> script, nodeModules |-> nodeModules,
                     was |-> nodeModules, packageJson |-> packageJson,
                     copied |-> FALSE]
    /\ disk \in {EmptyDisk, PriorDisk}
    /\ ~dist.exists => disk = EmptyDisk
    /\ clock = 1
    /\ pc = "load"
    /\ exitCode = Running
    /\ AuditIdle
    /\ CliIdle

DistFrame ==
    /\ UNCHANGED <<rootKind, files, targetDir, history, inflight, sitemap>>
    /\ UNCHANGED clock
    /\ UNCHANGED <<unitVars, labelVars, auditVars, cliVars>>

\* process.exit(code): a code of null counts as none given, which is 0
ExitStatus(code) == IF code = JsonNull THEN 0 ELSE code

\* cleanupAndExit, lines 98-117: dist/audit-script.js is unlinked when it
\* exists, dist/node_modules when it is a symbolic link; the process ends
\* with the code, by process.exit or, for 0, with nothing left to run
cleanupAndExit(d, code) ==
    /\ dist' = [d EXCEPT !.script = "none",
                         !.nodeModules = IF @ \in {"foreignLink", "ownLink"}
                                         THEN "none" ELSE @]
    /\ Exit(ExitStatus(code))

\* lines 36-82, up to the first spawn: without dist the script exits with 1;
\* the audit script is copied; if the project has node_modules and dist has
\* none, a link is made, and if that fails package.json is written and
\* npm install is started; otherwise the audit is started. An exception of
\* the copy or of the write of package.json reaches the catch of line 79
SetUpDistAudit ==
    /\ pc = "load"
    /\ IF ~dist.exists
       THEN /\ Exit(1)
            /\ UNCHANGED dist
       ELSE \E copyOk, linkOk, jsonOk \in BOOLEAN :
              LET copied == [dist EXCEPT !.script = "copied", !.copied = TRUE]
                  linking == dist.rootModules /\ dist.nodeModules = "none"
              IN  /\ ~copyOk => linkOk /\ jsonOk
                  /\ (~linking \/ linkOk) => jsonOk
                  /\ ~linking => linkOk
                  /\ IF ~copyOk THEN cleanupAndExit(dist, 1)
                     ELSE IF ~linking
                          THEN /\ dist' = copied
                               /\ pc' = "auditing"
                               /\ UNCHANGED exitCode
                     ELSE IF linkOk
                          THEN /\ dist' = [copied EXCEPT !.nodeModules = "ownLink"]
                               /\ pc' = "auditing"
                               /\ UNCHANGED exitCode
                     ELSE IF jsonOk
                          THEN /\ dist' = [copied EXCEPT !.packageJson = "temp"]
                               /\ pc' = "installing"
                               /\ UNCHANGED exitCode
                     ELSE cleanupAndExit(copied, 1)
    /\ UNCHANGED disk
    /\ DistFrame

\* install.on('close'), lines 65-71: a code other than 0 ends the process
\* with it; after a successful install, which has made dist/node_modules,
\* the audit is started
InstallCloses ==
    /\ pc = "installing"
    /\ \E code \in {0, 1, JsonNull} :
          IF code # 0
          THEN /\ Exit(ExitStatus(code))
               /\ UNCHANGED dist
          ELSE /\ dist' = [dist EXCEPT !.nodeModules = "dir"]
               /\ pc' = "auditing"
               /\ UNCHANGED exitCode
    /\ UNCHANGED disk
    /\ DistFrame

\* the audit ends and audit.on('close') runs, lines 93-95. An audit that
\* ends with code 0 has left its report in dist/seo-report: the timestamped
\* file and the alias, as WriteStamped and CopyLatest write them; one that
\* fails with code 1 has not got that far. The audit needs cheerio, which is
\* looked for in dist/node_modules and then in the project's node_modules
AuditCloses ==
    /\ pc = "auditing"
    /\ \E code \in {0, 1, JsonNull} :
          /\ (dist.nodeModules = "none" /\ ~dist.rootModules) => code = 1
          /\ disk' = IF code = 0
                     THEN [disk EXCEPT
                             !.dirExists = TRUE,
                             !.stamped = (clock :> [kind |-> "path",
                                                    stamp |-> clock]) @@ @,
                             !.latest = [kind |-> "path", stamp |-> clock]]
                     ELSE disk
          /\ cleanupAndExit(dist, code)
    /\ DistFrame

\* the child process cannot be started (npm or node is not found): spawn
\* emits 'error', for which neither child has a listener (lines 60-71,
\* 88-95), and the uncaught exception ends the process with code 1
ChildFailsToStart ==
    /\ pc \in {"installing", "auditing"}
    /\ Exit(1)
    /\ UNCHANGED <<dist, disk>>
    /\ DistFrame

NextDistAudit ==
    \/ SetUpDistAudit
    \/ InstallCloses
    \/ AuditCloses
    \/ ChildFailsToStart

SpecDistAudit == InitDistAudit /\ [][NextDistAudit]_vars

----------------------------------------------------------------------------
(* Properties of the auditors *)

\* n is the integer nearest to num / den, halves rounded upwards
IsRounded(n, num, den) ==
    /\ 2 * n * den - den <= 2 * num
    /\ 2 * num < 2 * n * den + den

HasNormalizedScore(r) ==
    /\ r.maxScore > 0
    /\ r.normalizedScore >= 0
    /\ r.normalizedScore <= 100
    /\ IsRounded(r.normalizedScore, r.score * 100, r.maxScore)

\* C1: the normalizedScore of every result of auditMetadata and of
\* auditContent lies in 0..100 and is round(score / maxScore * 100).
C1_NormalizedScore ==
    /\ metaResult # NoResult => HasNormalizedScore(metaResult)
    /\ contentResult # NoResult => HasNormalizedScore(contentResult)

\* both auditors have returned; 10 of 80 points is 12.5 and reported as 13,
\* 48 of 100 points as 48
C1_Witness ==
    /\ metaResult # NoResult
    /\ contentResult # NoResult
    /\ \/ metaResult.score = 10 /\ metaResult.normalizedScore = 13
       \/ contentResult.score = 48 /\ contentResult.normalizedScore = 48

\* the weight the claim gives to each metadata check
ClaimedWeight(name) ==
    CASE name = "Title" -> 15
      [] name = "Meta Description" -> 20
      [] name = "Viewport" -> 10
      [] name = "Charset" -> 10
      [] name = "H1 Tag" -> 15
      [] name = "Canonical Link" -> 10

PassedWeights(r) ==
    SumSeq([i \in 1..Len(r.checks) |->
               IF r.checks[i].status = "passed"
               THEN ClaimedWeight(r.checks[i].name) ELSE 0])

\* C2: auditMetadata's maxScore is 80 and its score is the sum of the
\* weights of exactly the checks that passed.
C2_MetadataScoreIsSumOfPassed ==
    metaResult # NoResult =>
        /\ metaResult.maxScore = 80
        /\ metaResult.score = PassedWeights(metaResult)

\* a result with passed and failed checks: title, viewport and H1 passed
C2_Witness ==
    /\ metaResult # NoResult
    /\ metaResult.score = 40
    /\ metaResult.checks[1].status = "passed"
    /\ metaResult.checks[2].status = "failed"
    /\ metaResult.checks[4].status = "failed"

AllChecksPassed(r) ==
    /\ r.score = r.maxScore
    /\ r.normalizedScore = 100
    /\ r.issues = <<>>
    /\ \A i \in 1..Len(r.checks) : r.checks[i].status = "passed"

\* the rubric as the claim words it
MeetsClaimedRubric(d) ==
    /\ d.titleLen >= 10 /\ d.titleLen <= 60
    /\ d.desc = "content" /\ d.descLen >= 10 /\ d.descLen <= 160
    /\ d.viewport = "deviceWidth"
    /\ d.charset # "absent"
    /\ d.h1 = 1
    /\ d.canonical = "href"

\* C3: auditMetadata passes all six checks exactly when the document has a
\* title of 10..60 characters, a description of 10..160 characters, a
\* viewport with width=device-width, a charset meta, exactly one h1 and a
\* canonical link with an href.
C3_FullScoreIffRubric ==
    metaResult # NoResult =>
        (AllChecksPassed(metaResult) <=> MeetsClaimedRubric(doc))

\* the names of the checks of auditMetadata in the order of the rubric
MetadataCheckNames ==
    <<"Title", "Meta Description", "Viewport", "Charset", "H1 Tag",
      "Canonical Link">>

\* the issue the audit words for a check of the rubric
IssueOf(name) ==
    CASE name = "Title" ->
           "Title tag is missing or not optimal (should be between 10-60 chars)"
      [] name = "Meta Description" ->
           "Meta description is missing or not optimal (should be between 10-160 chars)"
      [] name = "Viewport" ->
           "Viewport meta tag is missing or doesn't include width=device-width"
      [] name = "Charset" -> "Charset meta tag is missing"
      [] name = "H1 Tag" -> "Page should have exactly one H1 tag"
      [] name = "Canonical Link" -> "Canonical link is missing"

\* the issues of the failed checks of a list of checks, in order
RECURSIVE IssuesOfFailed(_)
IssuesOfFailed(checks) ==
    IF checks = <<>> THEN <<>>
    ELSE (IF Head(checks).status = "failed" THEN <<IssueOf(Head(checks).name)>>
          ELSE <<>>)
         \o IssuesOfFailed(Tail(checks))

\* C22: every result of auditMetadata has exactly six checks, named Title,
\* Meta Description, Viewport, Charset, H1 Tag, Canonical Link in this order,
\* each passed or failed, and its issues are exactly the issues of the failed
\* checks, one per failed check in the order of the checks, none for a passed
\* check.
C22_SixChecksOneIssuePerFailure ==
    metaResult # NoResult =>
        /\ [i \in 1..Len(metaResult.checks) |-> metaResult.checks[i].name]
               = MetadataCheckNames
        /\ \A i \in 1..Len(metaResult.checks) :
               metaResult.checks[i].status \in {"passed", "failed"}
        /\ metaResult.issues = IssuesOfFailed(metaResult.checks)
        /\ Len(metaResult.issues)
               = Cardinality({i \in 1..Len(metaResult.checks) :
                                 metaResult.checks[i].status = "failed"})

\* audits with failed and passed checks side by side
C22_Witness ==
    /\ metaResult # NoResult
    /\ Len(metaResult.issues) = 3
    /\ metaResult.checks[1].status = "passed"
    /\ metaResult.checks[2].status = "failed"
    /\ metaResult.checks[6].status = "failed"

\* the check of auditContent with the given name
CheckNamed(r, name) ==
    LET i == CHOOSE j \in 1..Len(r.checks) : r.checks[j].name = name
    IN  r.checks[i]

\* what the Image Alt Text check added to the score of a content result:
\* the score less what the five other checks award
ImageAltShare(r, d) ==
    r.score - (WordCountScore(d) + ReadabilityScore(d) + HeadingScore(d)
               + TieredScore(d.semanticTags, WEIGHTS.content.semanticTags)
               + TieredScore(d.internalLinks, WEIGHTS.content.internalLinks))

MissingAltIssue(r) ==
    \E i \in 1..Len(r.issues) : r.issues[i] = "images missing alt text"

\* C13: for a document without img elements the Image Alt Text check takes
\* the coverage as 100%, awards the full weight 20 with status passed and
\* adds no missing-alt issue.
C13_NoImagesFullMarks ==
    (contentResult # NoResult /\ Images(doc) = 0) =>
        /\ CheckNamed(contentResult, "Image Alt Text").value
               = [withAlt |-> 0, images |-> 0, pct |-> 100]
        /\ CheckNamed(contentResult, "Image Alt Text").status = "passed"
        /\ ImageAltShare(contentResult, doc) = 20
        /\ ~MissingAltIssue(contentResult)
        /\ contentResult.normalizedScore # NaN

\* a page without images, and without sub-headings, has been audited
C13_Witness ==
    /\ contentResult # NoResult
    /\ Images(doc) = 0
    /\ doc.h2 + doc.h3 = 0
    /\ Len(contentResult.issues) > 0
    /\ ImageAltShare(contentResult, doc) = 20

\* C14: for a document with 5 img elements, 3 of them with a non-empty alt,
\* the Image Alt Text check reports "3/5 images (60%)" and awards the half
\* weight of the 50-80% tier, 10 of 20.
C14_ThreeOfFiveImages ==
    (contentResult # NoResult /\ Images(doc) = 5 /\ doc.imgTextAlt = 3) =>
        /\ CheckNamed(contentResult, "Image Alt Text").value
               = [withAlt |-> 3, images |-> 5, pct |-> 60]
        /\ ImageAltShare(contentResult, doc) = 10

\* C15: the coverage counts only the images with a non-empty alt: the value,
\* the tier and the missing-alt issue are those of imgTextAlt of Images.
C15_EmptyAltIsMissingAlt ==
    (contentResult # NoResult /\ Images(doc) > 0) =>
        /\ CheckNamed(contentResult, "Image Alt Text").value
               = [withAlt |-> doc.imgTextAlt, images |-> Images(doc),
                  pct |-> Round(doc.imgTextAlt * 100, Images(doc))]
        /\ ImageAltShare(contentResult, doc)
               = (IF doc.imgTextAlt = Images(doc) THEN 20
                  ELSE IF doc.imgTextAlt * 100 >= 80 * Images(doc) THEN 16
                  ELSE IF doc.imgTextAlt * 100 >= 50 * Images(doc) THEN 10
                  ELSE 0)
        /\ MissingAltIssue(contentResult) <=> doc.imgTextAlt < Images(doc)

\* what the Word Count check added to the score of a content result
WordCountShare(r, d) ==
    r.score - (ReadabilityScore(d) + HeadingScore(d) + ImageAltScore(d)
               + TieredScore(d.semanticTags, WEIGHTS.content.semanticTags)
               + TieredScore(d.internalLinks, WEIGHTS.content.internalLinks))

\* C23: the Word Count check awards the full weight 15 for 300 to 1000
\* words, 8 (the rounded half of 15) for any other non-zero count and 0 for
\* no word; it reports the count, and it has passed exactly when it awarded
\* something.
C23_WordCountTiers ==
    contentResult # NoResult =>
        /\ WordCountShare(contentResult, doc)
               = (IF 300 <= doc.wordCount /\ doc.wordCount <= 1000 THEN 15
                  ELSE IF doc.wordCount # 0 THEN 8
                  ELSE 0)
        /\ CheckNamed(contentResult, "Word Count").value
               = [count |-> doc.wordCount]
        /\ CheckNamed(contentResult, "Word Count").status = "passed"
               <=> doc.wordCount # 0

\* a page of more than 1000 words has been audited and got the half weight
C23_Witness ==
    /\ contentResult # NoResult
    /\ doc.wordCount > 1000
    /\ WordCountShare(contentResult, doc) = 8

\* what the Readability check added to the score of a content result
ReadabilityShare(r, d) ==
    r.score - (WordCountScore(d) + HeadingScore(d) + ImageAltScore(d)
               + TieredScore(d.semanticTags, WEIGHTS.content.semanticTags)
               + TieredScore(d.internalLinks, WEIGHTS.content.internalLinks))

\* C24: the Readability check awards the full weight 25 when the average
\* of words per sentence is at most 20, 19 when it is above 20 and at most
\* 25, and 13 when it is above 25; the average of a text without sentences
\* is 0, so that such a text is awarded 25.
C24_ReadabilityTiers ==
    contentResult # NoResult =>
        LET w == doc.wordCount
            n == doc.sentences
        IN  ReadabilityShare(contentResult, doc)
               = (IF n = 0 \/ w <= 20 * n THEN 25
                  ELSE IF w <= 25 * n THEN 19
                  ELSE 13)

----------------------------------------------------------------------------
(* Properties of the metadata optimizer *)

\* the call of optimizeMetadata made last
LastCall == history[Len(history)]

\* C25: when optimizeMetadata has returned from a file without an error, the
\* file has a charset meta, a viewport meta, a canonical link, a title of 10
\* to 60 characters and a description of 10 to 160 characters, and the
\* auditMetadata that follows passes Title, Meta Description, Charset and
\* Canonical Link.
C25_OptimizedFilePassesAudit ==
    (metaResult # NoResult /\ ~LastCall.threw) =>
        LET d == files[LastCall.path].doc
        IN  /\ d.charset # "absent"
            /\ d.viewport # "absent"
            /\ d.canonical # "absent"
            /\ d.titleLen >= 10 /\ d.titleLen <= 60
            /\ d.desc = "content" /\ d.descLen >= 10 /\ d.descLen <= 160
            /\ \A name \in {"Title", "Meta Description", "Charset",
                             "Canonical Link"} :
                   CheckNamed(metaResult, name).status = "passed"

C28_OptimizerIsIdempotent ==
    \A i, j \in 1..Len(history) :
        (/\ history[i].run = 1
         /\ history[j].run = 2
         /\ history[i].path = history[j].path
         /\ ~history[i].threw) =>
            /\ history[j].returned = 0
            /\ ~history[j].wrote
            /\ history[j].after = history[i].after

----------------------------------------------------------------------------
(* Properties of the dist audit *)

\* C30: when the dist audit has ended after it copied the audit script into
\* dist, the copy has been removed, and a symbolic link dist/node_modules
\* that was there before the run is still there.
C30_DistAuditCleansUp ==
    (pc = "exited" /\ dist.copied) =>
        /\ dist.script = "none"
        /\ dist.was = "foreignLink" => dist.nodeModules = "foreignLink"

----------------------------------------------------------------------------
(* Properties of the audit run *)

Range(q) == {q[i] : i \in 1..Len(q)}

PresentFiles == {p \in HtmlFiles : files[p].state # "absent"}
Pages == {p \in HtmlFiles : files[p].state = "html"}
ThrowingFiles == {p \in HtmlFiles : files[p].state \in {"unreadable", "vanishing"}}

\* the files below a directory whose name starts with "." or is
\* "node_modules"
InSkippedDirectory == {".cache/h.html", "node_modules/skip.html"}

WalkOver == rootKind = "dir" /\ pc \notin {"start", "walk"}

\* C4: the scan audits every .html file of the tree except those below a
\* hidden directory or node_modules, which it never enters.
C4_ScanSkipsHiddenAndNodeModules ==
    /\ Range(processLog) \cap InSkippedDirectory = {}
    /\ WalkOver => Range(processLog) = PresentFiles \ InSkippedDirectory

SumOfNormalized(results) ==
    SumSeq([i \in 1..Len(results) |-> results[i].normalizedScore])

\* C5: the report's metadata and content scores are the rounded means of
\* the per-file normalizedScores, and overallScore is the rounded mean of
\* the two.
C5_AggregateScores ==
    (report # NoReport /\ metadataResults # <<>> /\ contentResults # <<>>) =>
        /\ IsRounded(report.totalMetadataScore,
                     SumOfNormalized(metadataResults), Len(metadataResults))
        /\ IsRounded(report.totalContentScore,
                     SumOfNormalized(contentResults), Len(contentResults))
        /\ IsRounded(report.overallScore,
                     report.totalMetadataScore + report.totalContentScore, 2)

\* two files with content scores 40 and 80 average to 60
C5_Witness ==
    /\ report # NoReport
    /\ Len(contentResults) = 2
    /\ contentResults[1].normalizedScore = 40
    /\ contentResults[2].normalizedScore = 80
    /\ report.totalContentScore = 60

\* C7: with no HTML file the aggregation puts no NaN into the report: the
\* scores are 0, or no report is made.
C7_ZeroFilesNoNaN ==
    (report # NoReport /\ metadataResults = <<>> /\ contentResults = <<>>) =>
        /\ report.totalMetadataScore = 0
        /\ report.totalContentScore = 0
        /\ report.overallScore = 0

ResultFiles(results) == {results[i].file : i \in 1..Len(results)}

\* C8: a file whose audit throws is left out of the results and logged, all
\* other HTML files are audited, and the report is made from the results
\* that remain.
C8_ThrowingFileIsSkipped ==
    /\ Range(errorLog) \subseteq ThrowingFiles
    /\ (pc = "crashed" /\ rootKind = "dir") => stack = <<>> /\ timestamp > 0
    /\ WalkOver =>
          /\ Range(errorLog) = ThrowingFiles
          /\ ResultFiles(metadataResults) = {Basename(p) : p \in Pages}
          /\ ResultFiles(contentResults) = {Basename(p) : p \in Pages}
          /\ Len(metadataResults) = Cardinality(Pages)
          /\ Len(contentResults) = Cardinality(Pages)
    /\ report # NoReport =>
          /\ report.metadataResults = metadataResults
          /\ report.contentResults = contentResults

\* a run that met an unreadable file before a page and a vanishing file
\* after it, and ended with the report of the two pages
C8_Witness ==
    /\ pc = "done"
    /\ files[".cache/h.html"].state = "unreadable"
    /\ files["a/b/page.html"].state = "html"
    /\ files["a/index.html"].state = "vanishing"
    /\ files["node_modules/skip.html"].state = "html"
    /\ Len(errorLog) = 2
    /\ Len(metadataResults) = 2
    /\ disk.latest # NoFile
    /\ report.metadataResults = metadataResults

\* the files of the walk so far whose audits both returned, in the order in
\* which the walk met them
AuditedSoFar == SelectSeq(processLog, LAMBDA p : p \in Pages)

\* C26: at every point of the directory walk the two result lists have the
\* same length and hold, position by position, the results of the same
\* file: the files met so far whose audits both returned, in the order of
\* the walk. A file for which one of the audits threw is in neither list.
C26_ListsStayAligned ==
    pc \in {"start", "walk"} =>
        /\ Len(metadataResults) = Len(contentResults)
        /\ Len(metadataResults) = Len(AuditedSoFar)
        /\ \A i \in 1..Len(metadataResults) :
               /\ metadataResults[i].file = Basename(AuditedSoFar[i])
               /\ contentResults[i].file = Basename(AuditedSoFar[i])
               /\ metadataResults[i].maxScore = 80
               /\ contentResults[i].maxScore = 100
        /\ \A p \in ThrowingFiles :
               /\ Basename(p) \notin ResultFiles(metadataResults)
               /\ Basename(p) \notin ResultFiles(contentResults)

\* the walk is under way, has met a file whose content audit threw after
\* its metadata audit had returned, and has audited two pages whose order by
\* metadata score is not their order by content score
C26_Witness ==
    /\ pc = "walk"
    /\ Len(metadataResults) = 2
    /\ \E p \in Range(errorLog) : files[p].state = "vanishing"
    /\ metadataResults[1].normalizedScore < metadataResults[2].normalizedScore
    /\ contentResults[1].normalizedScore > contentResults[2].normalizedScore

\* C11: after a successful run the latest alias and the run's timestamped
\* file both hold the rendered report of the run, and the alias is a copy of
\* the timestamped file.
C11_ReportFilesHoldRenderedReport ==
    pc = "done" =>
        /\ report.kind = "html"
        /\ timestamp \in DOMAIN disk.stamped
        /\ disk.stamped[timestamp] = report
        /\ disk.latest = report
        /\ disk.latest = disk.stamped[timestamp]

----------------------------------------------------------------------------
(* Properties of repeated runs *)

\* the timestamped pages of the report directory when the current run began
StampedBefore ==
    IF history = <<>> THEN <<>> ELSE history[Len(history)].stamped

\* C12: a successful run has created exactly one new timestamped page and
\* left every timestamped page of the earlier runs as it was.
C12_OneNewStampedPagePerRun ==
    pc = "done" =>
        /\ Cardinality(DOMAIN disk.stamped \ DOMAIN StampedBefore) = 1
        /\ \A t \in DOMAIN StampedBefore :
               t \in DOMAIN disk.stamped /\ disk.stamped[t] = StampedBefore[t]

AllResults == Range(metadataResults) \cup Range(contentResults)

\* C16: a call of auditMetadata and auditContent changes neither the file
\* it reads nor any other file of the tree or of the report directory,
\* whatever the number of calls before it, and every result is scored
\* against the weights of the table, 80 and 100 in sum.
C16_AuditsArePureReads ==
    /\ [][Len(processLog') = Len(processLog) + 1 =>
             /\ files' = files
             /\ disk' = disk
             /\ rootKind' = rootKind]_vars
    /\ [](\A r \in AllResults : r.maxScore \in {80, 100})

\* the second run over two pages has audited both again
C16_Witness ==
    /\ Len(history) = 1
    /\ Len(history[1].metadataResults) = 2
    /\ Len(processLog) >= 2
    /\ Len(metadataResults) >= 2
    /\ files["a/index.html"].state = "html"
    /\ files["a/b/page.html"].state = "html"

\* the run before the current one, when it came to render its report
Earlier == history[Len(history)]

\* C17: a run over the tree an earlier run has audited reproduces the
\* per-file scores, the three aggregate scores and the rating of that run.
C17_RerunReproducesScores ==
    (history # <<>> /\ report # NoReport /\ Earlier.report # NoReport) =>
        /\ metadataResults = Earlier.metadataResults
        /\ contentResults = Earlier.contentResults
        /\ report.totalMetadataScore = Earlier.report.totalMetadataScore
        /\ report.totalContentScore = Earlier.report.totalContentScore
        /\ report.overallScore = Earlier.report.overallScore
        /\ report.overallLabel = Earlier.report.overallLabel

\* the sequential walk of the same tree
Sequential == history[1]

----------------------------------------------------------------------------
(* Properties of the sitemap generators *)

\* C19: when the timer fires before the generation has ended, the run ends
\* there with a non-zero exit code, and no sitemap is written afterwards.
C19_TimeoutAborts ==
    sitemap.timedOut =>
        /\ pc = "exited"
        /\ exitCode # 0
        /\ sitemap.file # "writtenAfterTimeout"

\* C29: once the generation has completed before the deadline, the race
\* stays resolved whatever the timer does later: the catch of the race does
\* not run, no timeout is recorded, the sitemap and robots.txt stay as they
\* were written, and the process ends with exit code 0.
C29_LateTimerHasNoEffect ==
    [][sitemap.race = "resolved" =>
          /\ sitemap'.race = "resolved"
          /\ ~sitemap'.timedOut
          /\ sitemap'.file = sitemap.file
          /\ sitemap'.robots = sitemap.robots
          /\ exitCode' \in {Running, 0}]_vars

\* the consolidated generator wrote the sitemap before the deadline, and its
\* timer fired afterwards
C29_Witness ==
    /\ sitemap.script = "consolidated"
    /\ sitemap.race = "resolved"
    /\ sitemap.timer = "fired"
    /\ sitemap.file = "written"
    /\ clock >= TimeoutConsolidated
    /\ pc = "exited"
    /\ exitCode = 0

----------------------------------------------------------------------------
(* Properties of the report generator *)

Exited == pc \in {"done", "crashed"}

\* C9: when the target directory is missing or is not a directory, the run
\* ends with a non-zero exit code and the report directory and the artifacts
\* in it are neither created nor changed.
C9_MissingRootAborts ==
    rootKind # "dir" =>
        /\ disk \in {EmptyDisk, PriorDisk}
        /\ Exited => exitCode # 0

WrittenOnce(file) == file \notin {NoFile, OldReport}

\* C10: when the report writer has returned or failed, both artifacts hold
\* the new report, or the call failed and neither was written.
C10_ReportWriteAllOrNothing ==
    Exited =>
        \/ /\ exitCode = 0
           /\ disk.latest = cliResults
           /\ disk.json = Stringify(cliResults)
        \/ /\ exitCode # 0
           /\ ~WrittenOnce(disk.latest)
           /\ ~WrittenOnce(disk.json)

\* C21: the report generator exits with code 0 only when the whole run
\* succeeded: a run in which the metadata analysis or the content analysis
\* failed ends with a non-zero exit code.
C21_ExitZeroOnlyOnSuccess ==
    exitCode = 0 => metadataRun.success /\ contentRun.success

----------------------------------------------------------------------------
(* Properties of generateRatingLabel *)

\* the label the claim gives to a score
ClaimedLabel(s) ==
    CASE s >= 90 -> "Excellent"
      [] s >= 80 /\ s < 90 -> "Very Good"
      [] s >= 70 /\ s < 80 -> "Good"
      [] s >= 60 /\ s < 70 -> "Fair"
      [] s >= 50 /\ s < 60 -> "Poor"
      [] s < 50 -> "Very Poor"

LabelRank(l) ==
    CASE l = "Very Poor" -> 0
      [] l = "Poor" -> 1
      [] l = "Fair" -> 2
      [] l = "Good" -> 3
      [] l = "Very Good" -> 4
      [] l = "Excellent" -> 5

\* C6: generateRatingLabel gives every score of 0..100 the label of its
\* threshold interval, and a higher score never gets a lower label.
C6_RatingLabelThresholds ==
    /\ prevOut # "none" => prevOut = ClaimedLabel(prevIn)
    /\ ratingOut # "none" =>
          /\ ratingOut = ClaimedLabel(ratingIn)
          /\ prevIn <= ratingIn => LabelRank(prevOut) <= LabelRank(ratingOut)

\* 89 and 90 have been rated, on either side of a threshold
C6_Witness ==
    /\ prevIn = 89 /\ prevOut = "Very Good"
    /\ ratingIn = 90 /\ ratingOut = "Excellent"

----------------------------------------------------------------------------
(* Properties of the JSON report *)

\* JSON.parse of the document: the object with the numbers and strings as
\* written, null where a number was NaN
ParseJson(json) == [json EXCEPT !.kind = "results"]

\* C20: the overallScore and overallRating read back from seo-report.json
\* are those the run computed, and the score is
\* round(0.6 * metadata score + 0.4 * readability score).
C20_JsonKeepsOverallScore ==
    (pc = "done" /\ cliResults # NoReport) =>
        /\ ParseJson(disk.json).overallScore = cliResults.overallScore
        /\ ParseJson(disk.json).overallRating = cliResults.overallRating
        /\ IsRounded(cliResults.overallScore,
                     6 * cliResults.metadata.score
                     + 4 * cliResults.content.readabilityScore, 10)
        /\ cliResults.overallRating = getScoreRating(cliResults.overallScore)

\* a report whose two scores differ has been written and exited with 0
C20_Witness ==
    /\ pc = "done"
    /\ exitCode = 0
    /\ disk.json # NoFile
    /\ disk.json # OldReport
    /\ cliResults.metadata.score > cliResults.content.readabilityScore
    /\ cliResults.content.readabilityScore > 0
    /\ cliResults.overallScore > cliResults.content.readabilityScore
    /\ cliResults.overallScore < cliResults.metadata.score

====
